---- MODULE Spec2Model ----
(***************************************************************************)
(* Inventory movement and balance-reconciliation engine of the inventory   *)
(* web app (src/src/App.tsx, second App component, lines 1480-3542).       *)
(*                                                                         *)
(* The component's React state is the model's state.  Every handler is an  *)
(* async function: the code between two awaits runs atomically on the      *)
(* event loop, so a handler is one action for its synchronous prefix and   *)
(* one action per continuation (the code that runs when an awaited store   *)
(* call returns).  A handler closes over the state of the render in which  *)
(* it was invoked, so a running submission carries the values it captured  *)
(* (cart lines, cached balances, locations, product) in its task record.   *)
(*                                                                         *)
(* The handlers are modelled as entry points: the `disabled` attributes of *)
(* the buttons are not preconditions of the submit actions.                *)
(***************************************************************************)
EXTENDS Integers, Sequences, FiniteSets, TLC

\* ---------------------------------------------------------------- bounds
MaxQty == 2        \* largest quantity the operator types / a cart line reaches
MaxStock == 2      \* largest on-hand figure the store holds for one location
MaxDelta == 1      \* largest magnitude of the adjust delta
MaxLedger == 2     \* adjustments the operator makes in one run
MaxReq == 3        \* lookups the operator starts in one run
MaxOverdraw == 1   \* how far below zero an uncovered debit takes a row

\* ------------------------------------------------------------- universes
CodeA == <<"A", "-", "1", "-", "1", "-", "1">>
CodeB == <<"B", "-", "1", "-", "1", "-", "1">>
Products == {CodeA, CodeB}      \* product codes of the catalog (canonical form)
Locs == {"L1", "L2"}            \* location ids (locations_test)
NoLoc == ""                     \* the "Select location" option
NoCode == <<>>                  \* invProductCode / activeCode null (or the empty string)
Null == <<>>                    \* a nullable number that is null
Some(n) == <<n>>                \* a nullable number that is set
StoreMsg == "store error"       \* error.message of a failed store call
TaskIds == {1, 2}               \* slots for running submissions
LookupIds == {1, 2}             \* slots for running lookups
Steps == {"receive", "send", "transfer", "adjust"}

Max(a, b) == IF a >= b THEN a ELSE b
Min(a, b) == IF a <= b THEN a ELSE b

\* ----------------------------------------------------------------- state
VARIABLES
  \* the store (Supabase tables)
  onHandByLoc,     \* LOC_ON_HAND_TABLE: product -> (location with a row -> on_hand)
  onHandGlobal,    \* ON_HAND_TABLE: product -> Null (no row) or Some(on_hand)
  adjLedger,       \* ADJUSTMENTS_TABLE: rows [code, delta], oldest first
  \* React state of the component
  invStep, invProductCode, invOnHand, invLoading, invAdjustments,
  invError, invSuccess, invSearchError, invSearchBusy,
  invDelta, receiveToLoc, receiveQty, sendFromLoc, sendQty,
  fromLoc, toLoc, moveQty,
  locBalances, batchMode, cartLines, activeCode, invSubmitting,
  invReqRef,       \* invReqRef.current
  \* asynchronous work in flight
  task,            \* running submit handlers (their closures and position)
  lookup,          \* running lookup handlers
  locFetch,        \* products whose balance-effect fetch is in flight
  \* history variable
  addedOrder,      \* codes of the cart lines in the order they were first added
  \* the screen and the rest of the lookup's result state
  mode, scanError, invImageUrl, invMoves,
  \* the camera scanner
  isScanning,      \* the camera is on
  lastScanRef,     \* lastScanRef.current: {code, ts} of the debouncer
  invScanBusyRef,  \* invScanBusyRef.current
  now,             \* Date.now()
  scanBatchMode,   \* batchMode of the render whose startScan made the decode callback
  lastDecode,      \* history: the last decode event and what became of it
  \* inputs and results of the text functions
  rawText, textResult

storeVars == <<onHandByLoc, onHandGlobal, adjLedger>>
formVars == <<invDelta, receiveToLoc, receiveQty, sendFromLoc, sendQty,
              fromLoc, toLoc, moveQty>>
msgVars == <<invError, invSuccess>>
prodVars == <<invProductCode, invOnHand, invLoading, invAdjustments,
              invSearchError, invSearchBusy, invReqRef>>
cartVars == <<cartLines, activeCode, addedOrder>>
asyncVars == <<task, lookup, locFetch>>
viewVars == <<mode, scanError, invImageUrl, invMoves>>
scanVars == <<isScanning, lastScanRef, invScanBusyRef, now, scanBatchMode, lastDecode>>
textVars == <<rawText, textResult>>
vars == <<onHandByLoc, onHandGlobal, adjLedger,
          invStep, invProductCode, invOnHand, invLoading, invAdjustments,
          invError, invSuccess, invSearchError, invSearchBusy,
          invDelta, receiveToLoc, receiveQty, sendFromLoc, sendQty,
          fromLoc, toLoc, moveQty,
          locBalances, batchMode, cartLines, activeCode, invSubmitting,
          invReqRef, task, lookup, locFetch, addedOrder,
          viewVars, scanVars, textVars>>

\* -------------------------------------------------------------- messages
NoMsg == [where |-> "", why |-> "", lines |-> <<>>]
Err(where, why) == [where |-> where, why |-> why, lines |-> <<>>]
\* "Some items failed:\n" + one line per failed cart line
SomeItemsFailed(failed) == [where |-> "Some items failed", why |-> "", lines |-> failed]
Ok(msg) == [msg |-> msg, units |-> 0, items |-> 0]
\* `Batch <op> complete: ${cartTotalUnits} unit(s), ${cartLines.length} item(s).`
BatchComplete(msg, units, items) == [msg |-> msg, units |-> units, items |-> items]
NoSuccess == Ok("")

\* ------------------------------------------------------------- the store
EmptyRows == [l \in {} |-> 0]

\* on_hand of the row of product p at location l, 0 when there is no row yet
StoreOnHandAt(p, l) ==
  IF l \in DOMAIN onHandByLoc[p] THEN onHandByLoc[p][l] ELSE 0

GlobalOrZero(p) == IF onHandGlobal[p] = Null THEN 0 ELSE onHandGlobal[p][1]

\* adjust_inventory_by_location_test can apply delta at (p, l): the on-hand
\* stays a non-negative integer (and the product within the model's range)
StoreAccepts(p, l, delta) ==
  /\ StoreOnHandAt(p, l) + delta >= 0
  /\ GlobalOrZero(p) + delta <= MaxStock

\* the rows of product p after delta is applied at location l
RowsAfter(p, l, delta) ==
  [x \in DOMAIN onHandByLoc[p] \cup {l} |->
     IF x = l THEN StoreOnHandAt(p, l) + delta ELSE onHandByLoc[p][x]]

\* adjust_inventory_by_location_test applied: the per-location row and the
\* global row both move by delta
StoreApplyLocDelta(p, l, delta) ==
  /\ onHandByLoc' = [onHandByLoc EXCEPT ![p] = RowsAfter(p, l, delta)]
  /\ onHandGlobal' = [onHandGlobal EXCEPT ![p] = Some(GlobalOrZero(p) + delta)]
  /\ UNCHANGED adjLedger

\* the movement records the store appended for a sequence of adjust-by-
\* location calls: one record for every call it applied, of the type given
\* as the reason of the call
RECURSIVE MovementRecords(_)
MovementRecords(writes) ==
  IF writes = <<>> THEN <<>>
  ELSE IF writes[1].res = "ok"
       THEN <<[type |-> writes[1].reason, product_code |-> writes[1].code,
               location |-> writes[1].loc, quantity |-> writes[1].delta]>>
            \o MovementRecords(Tail(writes))
       ELSE MovementRecords(Tail(writes))

\* the catalog row of code holds an image_path
HasImage(code) == code = CodeA
\* invImageUrl after the image read of code: the public URL of its image
\* (named by the code), null when the row has no image_path
ImageUrlOf(code) == IF HasImage(code) THEN code ELSE NoCode
\* the rows the movement-history read of code returns (named by the code)
MovesOf(code) == code

\* ------------------------------------------------------------ idle slots
StartTime == 1000               \* Date.now() when the screen opens
DebounceMs == 900               \* now - last.ts < 900
\* the instants at which something happens
Times == {StartTime, StartTime + DebounceMs - 1, StartTime + DebounceMs,
          StartTime + DebounceMs + 1}
NoDecode == [code |-> NoCode, at |-> 0, last |-> [code |-> NoCode, ts |-> 0],
             outcome |-> "none"]
NoResult == [done |-> FALSE, code |-> <<>>, valid |-> FALSE]
IdleTask ==
  [kind |-> "none", batch |-> FALSE, pc |-> "idle", code |-> NoCode, qty |-> 0,
   from |-> NoLoc, to |-> NoLoc, lines |-> <<>>, bal |-> EmptyRows,
   idx |-> 0, failed |-> <<>>, writes |-> <<>>, reads |-> 0, order |-> <<>>,
   store0 |-> [p \in Products |-> EmptyRows]]

IdleLookup ==
  [pc |-> "idle", via |-> "", code |-> NoCode, batch |-> FALSE, reqId |-> 0,
   invRow |-> Null]

\* ------------------------------------------------------------------ Init
\* The component after construction, with the inventory mode entered and the
\* workflow menu shown.  The database holds 2 units of A at L1 and nothing
\* of B.
Init ==
  /\ onHandByLoc = [p \in Products |-> IF p = CodeA THEN [l \in {"L1"} |-> 2] ELSE EmptyRows]
  /\ onHandGlobal = [p \in Products |-> IF p = CodeA THEN Some(2) ELSE Null]
  /\ adjLedger = <<>>
  /\ invStep = "menu"
  /\ invProductCode = NoCode
  /\ invOnHand = Null
  /\ invLoading = FALSE
  /\ invAdjustments = <<>>
  /\ invError = NoMsg
  /\ invSuccess = NoSuccess
  /\ invSearchError = ""
  /\ invSearchBusy = FALSE
  /\ invDelta = 0
  /\ receiveToLoc = NoLoc
  /\ receiveQty = 1
  /\ sendFromLoc = NoLoc
  /\ sendQty = 1
  /\ fromLoc = NoLoc
  /\ toLoc = NoLoc
  /\ moveQty = 1
  /\ locBalances = EmptyRows
  /\ batchMode = FALSE
  /\ cartLines = <<>>
  /\ activeCode = NoCode
  /\ invSubmitting = FALSE
  /\ invReqRef = 0
  /\ task = [t \in TaskIds |-> IdleTask]
  /\ lookup = [k \in LookupIds |-> IdleLookup]
  /\ locFetch = {}
  /\ addedOrder = <<>>
  /\ mode = "inventory"
  /\ scanError = ""
  /\ invImageUrl = NoCode
  /\ invMoves = NoCode
  /\ isScanning = FALSE
  /\ lastScanRef = [code |-> NoCode, ts |-> 0]
  /\ invScanBusyRef = FALSE
  /\ now = StartTime
  /\ scanBatchMode = FALSE
  /\ lastDecode = NoDecode
  /\ rawText = <<>>
  /\ textResult = NoResult

\* --------------------------------------------------------------- helpers
\* Array.prototype.filter
RECURSIVE Filter(_, _)
Filter(s, keep) ==
  IF s = <<>> THEN <<>>
  ELSE IF keep[1] THEN <<s[1]>> \o Filter(Tail(s), Tail(keep))
       ELSE Filter(Tail(s), Tail(keep))
\* Array.prototype.findIndex, 1-based, 0 when absent (-1 in the code)
FindIndex(lines, code) ==
  IF \E i \in 1..Len(lines) : lines[i].product_code = code
  THEN CHOOSE i \in 1..Len(lines) :
         /\ lines[i].product_code = code
         /\ \A j \in 1..(i - 1) : lines[j].product_code # code
  ELSE 0
RECURSIVE SumQty(_)
SumQty(lines) == IF lines = <<>> THEN 0 ELSE lines[1].qty + SumQty(Tail(lines))

\* No finished submission is waiting to be acknowledged (see Dismiss).
Quiet == \A t \in TaskIds : task[t].pc # "done"

\* ------------------------------------------------------------- the cart
\* an updater that puts a new code behind the others
AddedLinesAppend(prev, code) ==
  IF FindIndex(prev, code) > 0
  THEN [prev EXCEPT ![FindIndex(prev, code)].qty = @ + 1]
  ELSE Append(prev, [product_code |-> code, qty |-> 1])

\* the updater of addToCart: a repeat code increments its line in place, a
\* new code is put in front of the others
AddedLines(prev, code) ==
  IF FindIndex(prev, code) > 0
  THEN [prev EXCEPT ![FindIndex(prev, code)].qty = @ + 1]
  ELSE <<[product_code |-> code, qty |-> 1]>> \o prev

\* addToCart(code); codes of the model are already trimmed and upper case
addToCart(code) ==
  /\ activeCode' = code
  /\ cartLines' = AddedLines(cartLines, code)
  /\ addedOrder' = IF FindIndex(cartLines, code) > 0 THEN addedOrder
                   ELSE Append(addedOrder, code)

\* the room the model leaves for one more unit of code
CartHasRoom(code) ==
  IF FindIndex(cartLines, code) = 0 THEN TRUE
  ELSE cartLines[FindIndex(cartLines, code)].qty < MaxQty

\* the cart panel is rendered with the product panel, in batch mode, outside
\* the adjust workflow
CartShown == Quiet /\ invStep \in Steps \ {"adjust"} /\ invProductCode # NoCode /\ batchMode

\* updateCartQty(code, qty): the line of code is given Math.max(1, qty || 1)
updateCartQty(code, qty) ==
  /\ CartShown
  /\ FindIndex(cartLines, code) > 0
  /\ cartLines' = [i \in 1..Len(cartLines) |->
       IF cartLines[i].product_code = code
       THEN [cartLines[i] EXCEPT !.qty = Max(1, IF qty = 0 THEN 1 ELSE qty)]
       ELSE cartLines[i]]
  /\ UNCHANGED <<viewVars, scanVars, textVars,
                 storeVars, formVars, msgVars, prodVars, asyncVars, invStep,
                 locBalances, batchMode, activeCode, addedOrder, invSubmitting>>

\* a "-" button that takes one unit off whatever the quantity is
CartMinusUnfloored(code) ==
  /\ CartShown
  /\ FindIndex(cartLines, code) > 0
  /\ cartLines' = [i \in 1..Len(cartLines) |->
       IF cartLines[i].product_code = code
       THEN [cartLines[i] EXCEPT !.qty = @ - 1] ELSE cartLines[i]]
  /\ UNCHANGED <<viewVars, scanVars, textVars,
                 storeVars, formVars, msgVars, prodVars, asyncVars, invStep,
                 locBalances, batchMode, activeCode, addedOrder, invSubmitting>>

\* cart line "-" button
CartMinus(code) ==
  /\ CartShown
  /\ FindIndex(cartLines, code) > 0
  /\ cartLines' = [i \in 1..Len(cartLines) |->
       IF cartLines[i].product_code = code
       THEN [cartLines[i] EXCEPT !.qty = Max(1, @ - 1)] ELSE cartLines[i]]
  /\ UNCHANGED <<viewVars, scanVars, textVars,
                 storeVars, formVars, msgVars, prodVars, asyncVars, invStep,
                 locBalances, batchMode, activeCode, addedOrder, invSubmitting>>

\* cart line "+" button
CartPlus(code) ==
  /\ CartShown
  /\ FindIndex(cartLines, code) > 0
  /\ cartLines[FindIndex(cartLines, code)].qty < MaxQty
  /\ cartLines' = [i \in 1..Len(cartLines) |->
       IF cartLines[i].product_code = code
       THEN [cartLines[i] EXCEPT !.qty = @ + 1] ELSE cartLines[i]]
  /\ UNCHANGED <<viewVars, scanVars, textVars,
                 storeVars, formVars, msgVars, prodVars, asyncVars, invStep,
                 locBalances, batchMode, activeCode, addedOrder, invSubmitting>>

\* cart line "Remove" button / removeFromCart
removeFromCart(code) ==
  /\ CartShown
  /\ FindIndex(cartLines, code) > 0
  /\ cartLines' = Filter(cartLines, [i \in 1..Len(cartLines) |-> cartLines[i].product_code # code])
  /\ addedOrder' = Filter(addedOrder, [i \in 1..Len(addedOrder) |-> addedOrder[i] # code])
  /\ UNCHANGED <<viewVars, scanVars, textVars,
                 storeVars, formVars, msgVars, prodVars, asyncVars, invStep,
                 locBalances, batchMode, activeCode, invSubmitting>>

\* cart "Clear" link / clearCart
clearCart ==
  /\ CartShown
  /\ cartLines # <<>>
  /\ cartLines' = <<>>
  /\ addedOrder' = <<>>
  /\ UNCHANGED <<viewVars, scanVars, textVars,
                 storeVars, formVars, msgVars, prodVars, asyncVars, invStep,
                 locBalances, batchMode, activeCode, invSubmitting>>

\* batch mode toggle button
ToggleBatchMode ==
  /\ Quiet
  /\ invStep \in Steps \ {"adjust"}
  /\ invProductCode # NoCode
  /\ batchMode' = ~batchMode
  /\ invError' = NoMsg
  /\ invSuccess' = NoSuccess
  /\ UNCHANGED <<viewVars, scanVars, textVars,
                 storeVars, formVars, prodVars, cartVars, asyncVars, invStep,
                 locBalances, invSubmitting>>

\* --------------------------------------------------------- workflow menu
\* the effect on [mode, invProductCode]: a product that became current has
\* its per-location balances fetched; no product empties the cache at once
EffectFetch(newCode) ==
  IF newCode = invProductCode THEN UNCHANGED <<locBalances, locFetch>>
  ELSE IF newCode = NoCode
       THEN locBalances' = EmptyRows /\ UNCHANGED locFetch
       ELSE locFetch' = locFetch \cup {newCode} /\ UNCHANGED locBalances

\* a workflow button of the "Inventory actions" menu
ChooseStep(s) ==
  /\ Quiet
  /\ mode = "inventory"
  /\ invStep = "menu"
  /\ invStep' = s
  /\ invError' = NoMsg
  /\ invSuccess' = NoSuccess
  /\ batchMode' = FALSE
  /\ cartLines' = <<>>
  /\ addedOrder' = <<>>
  /\ invProductCode' = NoCode
  /\ EffectFetch(NoCode)
  /\ UNCHANGED <<viewVars, scanVars, textVars,
                 storeVars, formVars, invOnHand, invLoading, invAdjustments,
                 invSearchError, invSearchBusy, invReqRef, activeCode,
                 invSubmitting, task, lookup>>

\* ----------------------------------------------------------- form inputs
\* the inputs are rendered with the panel of the current product
PanelShown(s) == Quiet /\ invStep = s /\ invProductCode # NoCode

\* the options of the From selects: "Select location" and the cached rows
\* with on_hand > 0
FromOptions == {NoLoc} \cup {l \in DOMAIN locBalances : locBalances[l] > 0}
\* the options of the To select of the move form: "Select location" and the
\* locations other than the chosen From
ToOptions == {NoLoc} \cup {l \in Locs : fromLoc = NoLoc \/ l # fromLoc}

setReceiveToLoc(l) ==
  /\ PanelShown("receive") /\ l # receiveToLoc
  /\ receiveToLoc' = l
  /\ UNCHANGED <<viewVars, scanVars, textVars,
                 storeVars, msgVars, prodVars, cartVars, asyncVars, invStep,
                 locBalances, batchMode, invSubmitting, invDelta, receiveQty,
                 sendFromLoc, sendQty, fromLoc, toLoc, moveQty>>

\* setReceiveQty(Math.max(1, Number(e.target.value) || 1)), single mode only
setReceiveQty(q) ==
  /\ PanelShown("receive") /\ ~batchMode /\ Max(1, q) # receiveQty
  /\ receiveQty' = Max(1, q)
  /\ UNCHANGED <<viewVars, scanVars, textVars,
                 storeVars, msgVars, prodVars, cartVars, asyncVars, invStep,
                 locBalances, batchMode, invSubmitting, invDelta, receiveToLoc,
                 sendFromLoc, sendQty, fromLoc, toLoc, moveQty>>

setSendFromLoc(l) ==
  /\ PanelShown("send") /\ l \in FromOptions /\ l # sendFromLoc
  /\ sendFromLoc' = l
  /\ UNCHANGED <<viewVars, scanVars, textVars,
                 storeVars, msgVars, prodVars, cartVars, asyncVars, invStep,
                 locBalances, batchMode, invSubmitting, invDelta, receiveToLoc,
                 receiveQty, sendQty, fromLoc, toLoc, moveQty>>

setSendQty(q) ==
  /\ PanelShown("send") /\ ~batchMode /\ Max(1, q) # sendQty
  /\ sendQty' = Max(1, q)
  /\ UNCHANGED <<viewVars, scanVars, textVars,
                 storeVars, msgVars, prodVars, cartVars, asyncVars, invStep,
                 locBalances, batchMode, invSubmitting, invDelta, receiveToLoc,
                 receiveQty, sendFromLoc, fromLoc, toLoc, moveQty>>

setFromLoc(l) ==
  /\ PanelShown("transfer") /\ l \in FromOptions /\ l # fromLoc
  /\ fromLoc' = l
  /\ UNCHANGED <<viewVars, scanVars, textVars,
                 storeVars, msgVars, prodVars, cartVars, asyncVars, invStep,
                 locBalances, batchMode, invSubmitting, invDelta, receiveToLoc,
                 receiveQty, sendFromLoc, sendQty, toLoc, moveQty>>

setToLoc(l) ==
  /\ PanelShown("transfer") /\ l \in ToOptions /\ l # toLoc
  /\ toLoc' = l
  /\ UNCHANGED <<viewVars, scanVars, textVars,
                 storeVars, msgVars, prodVars, cartVars, asyncVars, invStep,
                 locBalances, batchMode, invSubmitting, invDelta, receiveToLoc,
                 receiveQty, sendFromLoc, sendQty, fromLoc, moveQty>>

\* the quantity input of the move form is shown in both modes
setMoveQty(q) ==
  /\ PanelShown("transfer") /\ Max(1, q) # moveQty
  /\ moveQty' = Max(1, q)
  /\ UNCHANGED <<viewVars, scanVars, textVars,
                 storeVars, msgVars, prodVars, cartVars, asyncVars, invStep,
                 locBalances, batchMode, invSubmitting, invDelta, receiveToLoc,
                 receiveQty, sendFromLoc, sendQty, fromLoc, toLoc>>

\* adjust "-" tap: setInvDelta((d) => Math.min(d - 1, 0))
DeltaMinus ==
  /\ PanelShown("adjust")
  /\ Min(invDelta - 1, 0) >= -MaxDelta
  /\ invDelta' = Min(invDelta - 1, 0)
  /\ UNCHANGED <<viewVars, scanVars, textVars,
                 storeVars, msgVars, prodVars, cartVars, asyncVars, invStep,
                 locBalances, batchMode, invSubmitting, receiveToLoc, receiveQty,
                 sendFromLoc, sendQty, fromLoc, toLoc, moveQty>>

\* adjust "+" tap: setInvDelta((d) => Math.max(d + 1, 0))
DeltaPlus ==
  /\ PanelShown("adjust")
  /\ Max(invDelta + 1, 0) <= MaxDelta
  /\ invDelta' = Max(invDelta + 1, 0)
  /\ UNCHANGED <<viewVars, scanVars, textVars,
                 storeVars, msgVars, prodVars, cartVars, asyncVars, invStep,
                 locBalances, batchMode, invSubmitting, receiveToLoc, receiveQty,
                 sendFromLoc, sendQty, fromLoc, toLoc, moveQty>>

\* ---------------------------------------------------------- code texts
\* A string is the sequence of its characters.
Upper == {"A", "B", "P", "N", "G", "J", "E", "W"}
Lower == {"a", "b", "p", "n", "g", "j", "e", "w"}
Digits == {"1", "2"}
Alnum == Upper \cup Lower \cup Digits          \* [A-Za-z0-9]
Whitespace == {" "}                            \* \s
Dashes == {"en-dash", "em-dash", "minus"}      \* [–—−]
ImageExts == {<<"p", "n", "g">>, <<"j", "p", "g">>, <<"j", "p", "e", "g">>,
              <<"w", "e", "b", "p">>}

UpperOf(c) ==
  CASE c = "a" -> "A" [] c = "b" -> "B" [] c = "p" -> "P" [] c = "n" -> "N"
    [] c = "g" -> "G" [] c = "j" -> "J" [] c = "e" -> "E" [] c = "w" -> "W"
    [] OTHER -> c
LowerOf(c) ==
  CASE c = "A" -> "a" [] c = "B" -> "b" [] c = "P" -> "p" [] c = "N" -> "n"
    [] c = "G" -> "g" [] c = "J" -> "j" [] c = "E" -> "e" [] c = "W" -> "w"
    [] OTHER -> c
\* String.prototype.toUpperCase / toLowerCase
ToUpperCase(s) == [i \in 1..Len(s) |-> UpperOf(s[i])]
ToLowerCase(s) == [i \in 1..Len(s) |-> LowerOf(s[i])]

\* String.prototype.trim
RECURSIVE TrimStart(_)
TrimStart(s) ==
  IF s # <<>> /\ s[1] \in Whitespace THEN TrimStart(Tail(s)) ELSE s
RECURSIVE TrimEnd(_)
TrimEnd(s) ==
  IF s # <<>> /\ s[Len(s)] \in Whitespace THEN TrimEnd(SubSeq(s, 1, Len(s) - 1)) ELSE s
Trim(s) == TrimEnd(TrimStart(s))

\* String.prototype.includes for one character
Includes(s, c) == \E i \in 1..Len(s) : s[i] = c
\* s.split(c).pop(): what follows the last c (all of s when there is none)
AfterLast(s, c) ==
  IF Includes(s, c)
  THEN SubSeq(s, (CHOOSE i \in 1..Len(s) :
                    s[i] = c /\ \A j \in (i + 1)..Len(s) : s[j] # c) + 1, Len(s))
  ELSE s
\* s.split(c)[0]: what precedes the first c (all of s when there is none)
BeforeFirst(s, c) ==
  IF Includes(s, c)
  THEN SubSeq(s, 1, (CHOOSE i \in 1..Len(s) :
                       s[i] = c /\ \A j \in 1..(i - 1) : s[j] # c) - 1)
  ELSE s
\* .replace(/[–—−]/g, "-")
ReplaceDashes(s) == [i \in 1..Len(s) |-> IF s[i] \in Dashes THEN "-" ELSE s[i]]
\* .replace(/\s+/g, "")
RECURSIVE RemoveWhitespace(_)
RemoveWhitespace(s) ==
  IF s = <<>> THEN <<>>
  ELSE IF s[1] \in Whitespace THEN RemoveWhitespace(Tail(s))
       ELSE <<s[1]>> \o RemoveWhitespace(Tail(s))
\* s ends with "." followed by ext, whatever the case of its letters
EndsWithExt(s, ext) ==
  /\ Len(s) >= Len(ext) + 1
  /\ s[Len(s) - Len(ext)] = "."
  /\ ToLowerCase(SubSeq(s, Len(s) - Len(ext) + 1, Len(s))) = ext
\* .replace(/\.(png|jpg|jpeg|webp)$/i, "")
StripImageExt(s) ==
  IF \E ext \in ImageExts : EndsWithExt(s, ext)
  THEN LET ext == CHOOSE e \in ImageExts : EndsWithExt(s, e)
       IN SubSeq(s, 1, Len(s) - Len(ext) - 1)
  ELSE s

normalizeProductCode(input) ==
  LET trimmed == Trim(input)
      lastSegment == IF Includes(trimmed, "/") THEN AfterLast(trimmed, "/") ELSE trimmed
      clean == BeforeFirst(BeforeFirst(lastSegment, "?"), "#")
  IN StripImageExt(RemoveWhitespace(ReplaceDashes(clean)))

\* the positions at which a match of [A-Za-z0-9]{1,6} that starts at
\* position i of s can end (the position after its last character)
AlnumRunEnds(s, i) ==
  {i + n : n \in {m \in 1..6 : i + m - 1 <= Len(s) /\ \A j \in i..(i + m - 1) : s[j] \in Alnum}}
\* the positions at which a match of -[A-Za-z0-9]{1,6} that starts at i can end
DashRunEnds(s, i) ==
  IF i <= Len(s) /\ s[i] = "-" THEN AlnumRunEnds(s, i + 1) ELSE {}
\* the pattern without its end anchor
isValidProductCodePrefix(code) ==
  \E p1 \in AlnumRunEnds(code, 1) :
    \E p2 \in DashRunEnds(code, p1) :
      \E p3 \in DashRunEnds(code, p2) :
        \E p4 \in DashRunEnds(code, p3) : p4 <= Len(code) + 1

\* /^[A-Za-z0-9]{1,6}(-[A-Za-z0-9]{1,6}){3}$/.test(code)
isValidProductCodeFormat(code) ==
  \E p1 \in AlnumRunEnds(code, 1) :
    \E p2 \in DashRunEnds(code, p1) :
      \E p3 \in DashRunEnds(code, p2) :
        \E p4 \in DashRunEnds(code, p3) : p4 = Len(code) + 1

\* ---------------------------------------------------------------- lookup
\* .eq("product_code", code).order("created_at", desc).limit(3) on the
\* adjustments table: the deltas of code, most recent first, at most 3
RECURSIVE DeltasOf(_, _)
DeltasOf(rows, code) ==
  IF rows = <<>> THEN <<>>
  ELSE IF rows[Len(rows)].code = code
       THEN <<rows[Len(rows)].delta>> \o DeltasOf(SubSeq(rows, 1, Len(rows) - 1), code)
       ELSE DeltasOf(SubSeq(rows, 1, Len(rows) - 1), code)
LastAdjustments(code) ==
  SubSeq(DeltasOf(adjLedger, code), 1, Min(3, Len(DeltasOf(adjLedger, code))))

\* handleInventorySearch up to its first await (the existence check), the
\* search box holding the text `typed`: an empty or malformed text is
\* reported and nothing is looked up
handleInventorySearch(k, typed) ==
  LET raw == Trim(typed)
      productCode == ToUpperCase(normalizeProductCode(raw))
  IN
  /\ Quiet
  /\ mode = "inventory"
  /\ invStep \in Steps
  /\ lookup[k].pc = "idle"
  /\ invReqRef < MaxReq
  /\ invSuccess' = NoSuccess
  /\ IF raw = <<>>
     THEN /\ invSearchError' = "Please enter a product code"
          /\ UNCHANGED <<invSearchBusy, lookup>>
     ELSE IF ~isValidProductCodeFormat(productCode)
          THEN /\ invSearchError' = "Invalid format"
               /\ UNCHANGED <<invSearchBusy, lookup>>
          ELSE /\ invSearchError' = ""
               /\ invSearchBusy' = TRUE
               /\ lookup' = [lookup EXCEPT ![k] =
                    [pc |-> "searchExist", via |-> "search", code |-> productCode,
                     batch |-> batchMode, reqId |-> 0, invRow |-> Null]]
  /\ UNCHANGED <<viewVars, scanVars, textVars,
                 storeVars, formVars, cartVars, invStep, invProductCode, invOnHand,
                 invLoading, invAdjustments, invError, invReqRef, locBalances,
                 batchMode, invSubmitting, task, locFetch>>

\* the existence check of handleInventorySearch failed ("Search failed") or
\* found no row ("No product found")
SearchExistFails(k) ==
  /\ Quiet
  /\ lookup[k].pc = "searchExist"
  /\ invSearchError' = IF lookup[k].code \in Products THEN "Search failed"
                       ELSE "No product found"
  /\ invSearchBusy' = FALSE
  /\ lookup' = [lookup EXCEPT ![k] = IdleLookup]
  /\ UNCHANGED <<viewVars, scanVars, textVars,
                 storeVars, formVars, msgVars, cartVars, invStep, invProductCode,
                 invOnHand, invLoading, invAdjustments, invReqRef, locBalances,
                 batchMode, invSubmitting, task, locFetch>>

\* the existence check found the product: handleInventorySearch calls
\* handleInventoryModeScan, which runs up to its own existence check
SearchExistFound(k) ==
  /\ Quiet
  /\ lookup[k].pc = "searchExist"
  /\ lookup[k].code \in Products
  /\ lookup[k].batch => CartHasRoom(lookup[k].code)
  /\ invReqRef' = invReqRef + 1
  /\ lookup' = [lookup EXCEPT ![k].pc = "exist", ![k].reqId = invReqRef + 1]
  /\ invSearchError' = ""
  /\ invProductCode' = lookup[k].code
  /\ invDelta' = 0
  /\ invSuccess' = NoSuccess
  /\ invLoading' = TRUE
  /\ invOnHand' = Null
  /\ invAdjustments' = <<>>
  /\ IF lookup[k].batch THEN addToCart(lookup[k].code) ELSE UNCHANGED cartVars
  /\ EffectFetch(lookup[k].code)
  /\ scanError' = ""
  /\ invImageUrl' = NoCode
  /\ UNCHANGED <<mode, invMoves, scanVars, textVars,
                 storeVars, invStep, invError, invSearchBusy, receiveToLoc,
                 receiveQty, sendFromLoc, sendQty, fromLoc, toLoc, moveQty,
                 batchMode, invSubmitting, task>>

\* handleInventoryModeScan returned: its caller goes on
AfterModeScan(k) ==
  [lookup EXCEPT ![k].pc = IF lookup[k].via = "scan" THEN "scanEnd" ELSE "searchMoves"]

Superseded(k) == lookup[k].reqId # invReqRef

\* the message of a failed read of the lookup
ReadFailure(at, code) ==
  IF at = "exist"
  THEN (IF code \in Products THEN "Product check failed" ELSE "No product found")
  ELSE IF at = "image" THEN "Image lookup failed" ELSE "On-hand lookup failed"

\* continuation of a read of the lookup (existence, image, on-hand): a
\* superseded lookup returns silently, a failed read ends the lookup with
\* its message and the loading flag cleared, a good read goes on to the
\* next read.  The existence check finds the codes of the catalog only.
LookupReadReturns(k, at, next, ok) ==
  /\ Quiet
  /\ lookup[k].pc = at
  /\ (at = "exist" /\ ok) => lookup[k].code \in Products
  /\ IF Superseded(k)
     THEN lookup' = AfterModeScan(k) /\ UNCHANGED <<invLoading, scanError, invImageUrl>>
     ELSE IF ~ok
          THEN /\ lookup' = AfterModeScan(k)
               /\ invLoading' = FALSE
               /\ scanError' = ReadFailure(at, lookup[k].code)
               /\ UNCHANGED invImageUrl
          ELSE /\ lookup' = [lookup EXCEPT ![k].pc = next,
                    ![k].invRow = IF at = "onhand" THEN onHandGlobal[lookup[k].code]
                                  ELSE @]
               /\ invImageUrl' = IF at = "image" THEN ImageUrlOf(lookup[k].code)
                                 ELSE invImageUrl
               /\ UNCHANGED <<invLoading, scanError>>
  /\ UNCHANGED <<mode, invMoves, scanVars, textVars,
                 storeVars, formVars, msgVars, cartVars, invStep, invProductCode,
                 invOnHand, invAdjustments, invSearchError, invSearchBusy,
                 invReqRef, locBalances, batchMode, invSubmitting, task, locFetch>>

ExistReturns(k, ok) == LookupReadReturns(k, "exist", "image", ok)
ImageReturns(k, ok) == LookupReadReturns(k, "image", "onhand", ok)
OnHandReturns(k, ok) == LookupReadReturns(k, "onhand", "adj", ok)

\* continuation of the adjustment-history read; loadRecentMoves is awaited next
AdjHistoryReturns(k, ok) ==
  /\ Quiet
  /\ lookup[k].pc = "adj"
  /\ IF Superseded(k)
     THEN lookup' = AfterModeScan(k) /\ UNCHANGED <<invAdjustments, scanError>>
     ELSE /\ lookup' = [lookup EXCEPT ![k].pc = "moves"]
          /\ invAdjustments' = IF ok THEN LastAdjustments(lookup[k].code) ELSE <<>>
          /\ scanError' = IF ok THEN scanError ELSE "Adjustment history failed"
  /\ UNCHANGED <<mode, invImageUrl, invMoves, scanVars, textVars,
                 storeVars, formVars, msgVars, cartVars, invStep, invProductCode,
                 invOnHand, invLoading, invSearchError, invSearchBusy,
                 invReqRef, locBalances, batchMode, invSubmitting, task, locFetch>>

\* loadRecentMoves returned inside handleInventoryModeScan: it has set the
\* movement history (it does not look at the generation), then the lookup
\* publishes the on-hand it read unless it was superseded
MovesReturns(k, ok) ==
  /\ Quiet
  /\ lookup[k].pc = "moves"
  /\ lookup' = AfterModeScan(k)
  /\ invMoves' = IF ok THEN MovesOf(lookup[k].code) ELSE NoCode
  /\ IF Superseded(k)
     THEN UNCHANGED <<invOnHand, invLoading>>
     ELSE /\ invOnHand' = IF lookup[k].invRow = Null THEN Some(0) ELSE lookup[k].invRow
          /\ invLoading' = FALSE
  /\ UNCHANGED <<mode, scanError, invImageUrl, scanVars, textVars,
                 storeVars, formVars, msgVars, cartVars, invStep, invProductCode,
                 invAdjustments, invSearchError, invSearchBusy,
                 invReqRef, locBalances, batchMode, invSubmitting, task, locFetch>>

\* the second loadRecentMoves of handleInventorySearch returned; finally
SearchMovesReturns(k, ok) ==
  /\ Quiet
  /\ lookup[k].pc = "searchMoves"
  /\ invMoves' = IF ok THEN MovesOf(lookup[k].code) ELSE NoCode
  /\ invSearchBusy' = FALSE
  /\ lookup' = [lookup EXCEPT ![k] = IdleLookup]
  /\ UNCHANGED <<mode, scanError, invImageUrl, scanVars, textVars,
                 storeVars, formVars, msgVars, cartVars, invStep, invProductCode,
                 invOnHand, invLoading, invAdjustments, invSearchError,
                 invReqRef, locBalances, batchMode, invSubmitting, task, locFetch>>

\* a refresh that merges the fetched rows into the rows it had
setLocBalancesMerged(prev, rows) ==
  [l \in DOMAIN prev \cup DOMAIN rows |-> IF l \in DOMAIN rows THEN rows[l] ELSE prev[l]]

\* setLocBalances((data ?? []).map(...)) of refreshLocBalances: the cache
\* after the fetch, given the cache before it and the fetched rows
setLocBalances(prev, rows) == rows

\* the per-location rows the store holds for code
StoreRows(code) == IF code \in Products THEN onHandByLoc[code] ELSE EmptyRows

\* the fetch started by the effect returned: refreshLocBalances sets the
\* cache to the rows of p, its .catch empties the cache
EffectFetchReturns(p, ok) ==
  /\ Quiet
  /\ p \in locFetch
  /\ locFetch' = locFetch \ {p}
  /\ locBalances' = IF ok THEN setLocBalances(locBalances, StoreRows(p)) ELSE EmptyRows
  /\ UNCHANGED <<viewVars, scanVars, textVars,
                 storeVars, formVars, msgVars, prodVars, cartVars, invStep,
                 batchMode, invSubmitting, task, lookup>>

\* ---------------------------------------------------------- the scanner
\* startScan("inventory") up to the camera's start: the decode callback it
\* hands to the camera closes over the batchMode of this render
startScan(ok) ==
  /\ Quiet
  /\ mode = "inventory"
  /\ invStep \in Steps
  /\ ~isScanning
  /\ scanError' = IF ok THEN "" ELSE "Could not start camera."
  /\ invSuccess' = NoSuccess
  /\ isScanning' = ok
  /\ scanBatchMode' = IF ok THEN batchMode ELSE scanBatchMode
  /\ UNCHANGED <<mode, invImageUrl, invMoves, lastScanRef, invScanBusyRef, now,
                 lastDecode, textVars, storeVars, formVars, prodVars, cartVars,
                 asyncVars, invStep, invError, locBalances, batchMode, invSubmitting>>

\* the "Stop scanning" button
stopScan ==
  /\ Quiet
  /\ isScanning
  /\ isScanning' = FALSE
  /\ UNCHANGED <<viewVars, lastScanRef, invScanBusyRef, now, scanBatchMode,
                 lastDecode, textVars, storeVars, formVars, msgVars, prodVars,
                 cartVars, asyncVars, invStep, locBalances, batchMode, invSubmitting>>

\* time passes
Tick(t) ==
  /\ t \in Times
  /\ t > now
  /\ now' = t
  /\ UNCHANGED <<viewVars, isScanning, lastScanRef, invScanBusyRef, scanBatchMode,
                 lastDecode, textVars, storeVars, formVars, msgVars, prodVars,
                 cartVars, asyncVars, invStep, locBalances, batchMode, invSubmitting>>

\* a debouncer whose window includes the 900th millisecond
DebouncedInclusive(last, productCode, t) ==
  last.code = productCode /\ t - last.ts <= DebounceMs

\* the debouncer of the decode callback: the event is a repeat of the last
\* accepted code within the threshold
Debounced(last, productCode, t) ==
  last.code = productCode /\ t - last.ts < DebounceMs

\* a debouncer that renews its record on a suppressed event
SuppressedRecordRenewed(last, productCode, t) == [code |-> productCode, ts |-> t]

\* lastScanRef.current after a suppressed event: the callback returns before
\* the record is written
SuppressedRecord(last, productCode, t) == last

\* the camera decoded `decodedText`: the decode callback up to the first
\* await of handleInventoryModeScan.  A debounced event returns at once; an
\* event that finds the previous handler still running returns after the
\* debouncer has recorded it.
Decode(k, decodedText) ==
  LET productCode == ToUpperCase(Trim(normalizeProductCode(decodedText)))
      event(outcome) == [code |-> productCode, at |-> now, last |-> lastScanRef,
                         outcome |-> outcome]
  IN
  /\ Quiet
  /\ isScanning
  /\ IF Debounced(lastScanRef, productCode, now)
     THEN /\ lastDecode' = event("suppressed")
          /\ lastScanRef' = SuppressedRecord(lastScanRef, productCode, now)
          /\ UNCHANGED <<invScanBusyRef, lookup, invReqRef,
                         invSearchError, invProductCode, invDelta, invSuccess,
                         invLoading, invOnHand, invAdjustments, cartVars,
                         locBalances, locFetch, scanError, invImageUrl>>
     ELSE IF invScanBusyRef
     THEN /\ lastDecode' = event("busy")
          /\ lastScanRef' = [code |-> productCode, ts |-> now]
          /\ UNCHANGED <<invScanBusyRef, lookup, invReqRef,
                         invSearchError, invProductCode, invDelta, invSuccess,
                         invLoading, invOnHand, invAdjustments, cartVars,
                         locBalances, locFetch, scanError, invImageUrl>>
     ELSE /\ lookup[k].pc = "idle"
          /\ invReqRef < MaxReq
          /\ scanBatchMode => CartHasRoom(productCode)
          /\ lastDecode' = event("started")
          /\ lastScanRef' = [code |-> productCode, ts |-> now]
          /\ invScanBusyRef' = TRUE
          /\ invReqRef' = invReqRef + 1
          /\ lookup' = [lookup EXCEPT ![k] =
               [pc |-> "exist", via |-> "scan", code |-> productCode,
                batch |-> scanBatchMode, reqId |-> invReqRef + 1, invRow |-> Null]]
          /\ invSearchError' = ""
          /\ invProductCode' = productCode
          /\ invDelta' = 0
          /\ invSuccess' = NoSuccess
          /\ invLoading' = TRUE
          /\ invOnHand' = Null
          /\ invAdjustments' = <<>>
          /\ IF scanBatchMode THEN addToCart(productCode) ELSE UNCHANGED cartVars
          /\ EffectFetch(productCode)
          /\ scanError' = ""
          /\ invImageUrl' = NoCode
  /\ UNCHANGED <<mode, invMoves, isScanning, now, scanBatchMode, textVars,
                 storeVars, invStep, invError, invSearchBusy, receiveToLoc,
                 receiveQty, sendFromLoc, sendQty, fromLoc, toLoc, moveQty,
                 batchMode, invSubmitting, task>>

\* a decode callback without the finally: the busy flag stays set
ScanEndKeepsBusy(k) ==
  /\ Quiet
  /\ lookup[k].pc = "scanEnd"
  /\ isScanning' = IF lookup[k].batch THEN isScanning ELSE FALSE
  /\ lookup' = [lookup EXCEPT ![k] = IdleLookup]
  /\ UNCHANGED <<viewVars, lastScanRef, invScanBusyRef, now, scanBatchMode, lastDecode,
                 textVars, storeVars, formVars, msgVars, prodVars, cartVars, invStep,
                 locBalances, batchMode, invSubmitting, task, locFetch>>

\* handleInventoryModeScan returned to the decode callback: the camera is
\* stopped unless the callback's batchMode is on, and the busy flag released
ScanEnd(k) ==
  /\ Quiet
  /\ lookup[k].pc = "scanEnd"
  /\ isScanning' = IF lookup[k].batch THEN isScanning ELSE FALSE
  /\ invScanBusyRef' = FALSE
  /\ lookup' = [lookup EXCEPT ![k] = IdleLookup]
  /\ UNCHANGED <<viewVars, lastScanRef, now, scanBatchMode, lastDecode, textVars,
                 storeVars, formVars, msgVars, prodVars, cartVars, invStep,
                 locBalances, batchMode, invSubmitting, task, locFetch>>

\* ------------------------------------------------------ workflow resets
\* the Back button of a workflow step: the camera is stopped and the step's
\* product, cart and histories are dropped
WorkflowBack ==
  /\ Quiet
  /\ mode = "inventory"
  /\ invStep \in Steps
  /\ invProductCode # NoCode
  /\ isScanning' = FALSE
  /\ invError' = NoMsg
  /\ invSuccess' = NoSuccess
  /\ batchMode' = FALSE
  /\ cartLines' = <<>>
  /\ addedOrder' = <<>>
  /\ invProductCode' = NoCode
  /\ invImageUrl' = NoCode
  /\ invOnHand' = Null
  /\ invAdjustments' = <<>>
  /\ invMoves' = NoCode
  /\ invStep' = "menu"
  /\ EffectFetch(NoCode)
  /\ UNCHANGED <<mode, scanError, lastScanRef, invScanBusyRef, now, scanBatchMode,
                 lastDecode, textVars, storeVars, formVars, invLoading,
                 invSearchError, invSearchBusy, invReqRef, activeCode,
                 invSubmitting, task, lookup>>

\* resetAllWorkflows(), but for the mode
resetAllWorkflows ==
  /\ scanError' = ""
  /\ invProductCode' = NoCode
  /\ invOnHand' = Null
  /\ invLoading' = FALSE
  /\ invDelta' = 0
  /\ invSuccess' = NoSuccess
  /\ invImageUrl' = NoCode
  /\ invAdjustments' = <<>>
  /\ invSearchError' = ""
  /\ invSearchBusy' = FALSE
  /\ invMoves' = NoCode
  /\ invStep' = "menu"
  /\ batchMode' = FALSE
  /\ cartLines' = <<>>
  /\ addedOrder' = <<>>
  /\ activeCode' = NoCode

\* the Back button of the header: stopScan, then resetAllWorkflows.  The
\* effect on [mode, invProductCode] returns at once outside the inventory
\* mode, so the cached balances stay.
BackHome ==
  /\ Quiet
  /\ mode = "inventory"
  /\ mode' = "home"
  /\ isScanning' = FALSE
  /\ resetAllWorkflows
  /\ UNCHANGED <<lastScanRef, invScanBusyRef, now, scanBatchMode, lastDecode,
                 textVars, storeVars, invError, invReqRef, receiveToLoc,
                 receiveQty, sendFromLoc, sendQty, fromLoc, toLoc, moveQty,
                 locBalances, invSubmitting, asyncVars>>

\* the "Inventory movements" button of the home menu; the effect empties the
\* cached balances (no current product)
OpenInventory ==
  /\ Quiet
  /\ mode = "home"
  /\ mode' = "inventory"
  /\ resetAllWorkflows
  /\ locBalances' = EmptyRows
  /\ UNCHANGED <<scanVars, textVars, storeVars, invError, invReqRef, receiveToLoc,
                 receiveQty, sendFromLoc, sendQty, fromLoc, toLoc, moveQty,
                 invSubmitting, asyncVars>>

\* ------------------------------------------------------- movement engine
\* getOnHandAt(locationId) over the cached rows `bal` of the render
getOnHandAt(bal, locationId) ==
  IF locationId = NoLoc THEN 0
  ELSE IF locationId \in DOMAIN bal THEN bal[locationId] ELSE 0

\* const q = Math.max(1, Number(qty) || 1)
LineQty(qty) == Max(1, qty)

\* the argument object of one supabase.rpc(ADJUST_LOC_RPC, ...) call, with
\* the state of the call
Write(code, loc, delta, reason) ==
  [code |-> code, loc |-> loc, delta |-> delta, reason |-> reason, res |-> "pending"]

\* receiveSingleLine: the error it throws before the store call ("" = none)
receiveSingleLineError(code, qty, toLocation) ==
  IF code = NoCode THEN "Missing product code."
  ELSE IF toLocation = NoLoc THEN "Missing To location."
  ELSE ""

\* receiveSingleLine receiving one unit whatever the quantity
receiveSingleLineWriteOne(code, qty, toLocation) ==
  Write(code, toLocation, 1, "receive")

receiveSingleLineWrite(code, qty, toLocation) ==
  Write(code, toLocation, LineQty(qty), "receive")

\* sendSingleLine without its stock check
sendSingleLineErrorNoStock(code, qty, fromLocation, bal) ==
  IF code = NoCode THEN "Missing product code."
  ELSE IF fromLocation = NoLoc THEN "Missing From location."
  ELSE ""

\* sendSingleLine: the error it throws before the store call ("" = none)
sendSingleLineError(code, qty, fromLocation, bal) ==
  IF code = NoCode THEN "Missing product code."
  ELSE IF fromLocation = NoLoc THEN "Missing From location."
  ELSE IF LineQty(qty) > getOnHandAt(bal, fromLocation) THEN "Insufficient stock"
  ELSE ""

\* sendSingleLine sending one unit whatever the quantity
sendSingleLineWriteOne(code, qty, fromLocation) ==
  Write(code, fromLocation, -1, "send")

sendSingleLineWrite(code, qty, fromLocation) ==
  Write(code, fromLocation, -LineQty(qty), "send")

\* transferSingleLine: the error it throws before the first store call
transferSingleLineError(code, qty, fromLocationId, toLocationId, bal) ==
  IF code = NoCode THEN "Missing product code."
  ELSE IF fromLocationId = NoLoc \/ toLocationId = NoLoc THEN "Missing From/To location."
  ELSE IF fromLocationId = toLocationId THEN "From and To cannot be the same location."
  ELSE IF LineQty(qty) > getOnHandAt(bal, fromLocationId) THEN "Insufficient stock"
  ELSE ""

\* transferSingleLine: out1, the debit at the from-location
transferOutWrite(code, qty, fromLocationId) ==
  Write(code, fromLocationId, -LineQty(qty), "transfer_out")

\* a credit of one unit whatever the quantity
transferInWriteOne(code, qty, toLocationId) ==
  Write(code, toLocationId, 1, "transfer_in")

\* transferSingleLine: in1, the credit at the to-location
transferInWrite(code, qty, toLocationId) ==
  Write(code, toLocationId, LineQty(qty), "transfer_in")

\* the error of the single-line function of rec's operation for (code, qty)
LineError(rec, code, qty) ==
  CASE rec.kind = "receive" -> receiveSingleLineError(code, qty, rec.to)
    [] rec.kind = "send" -> sendSingleLineError(code, qty, rec.from, rec.bal)
    [] rec.kind = "transfer" ->
         transferSingleLineError(code, qty, rec.from, rec.to, rec.bal)

\* the first store call of the single-line function of rec's operation
FirstWrite(rec, code, qty) ==
  CASE rec.kind = "receive" -> receiveSingleLineWrite(code, qty, rec.to)
    [] rec.kind = "send" -> sendSingleLineWrite(code, qty, rec.from)
    [] rec.kind = "transfer" -> transferOutWrite(code, qty, rec.from)

\* the prefix of the message set by the catch of a single / a batch submit
SinglePrefix(kind) ==
  CASE kind = "receive" -> "Receive failed"
    [] kind = "send" -> "Send failed"
    [] kind = "transfer" -> "Move failed"
BatchPrefix(kind) ==
  CASE kind = "receive" -> "Batch receive failed"
    [] kind = "send" -> "Batch send failed"
    [] kind = "transfer" -> "Batch transfer failed"
SingleDone(kind) ==
  CASE kind = "receive" -> "Inventory received."
    [] kind = "send" -> "Inventory sent."
    [] kind = "transfer" -> "Inventory moved."
BatchDone(kind) ==
  CASE kind = "receive" -> "Batch receive complete"
    [] kind = "send" -> "Batch send complete"
    [] kind = "transfer" -> "Batch transfer complete"

\* a success that leaves the inputs as the operator set them
ResetInputsKept(kind) == UNCHANGED formVars

\* the inputs of the operation set back after a success
ResetInputs(kind) ==
  /\ receiveQty' = IF kind = "receive" THEN 1 ELSE receiveQty
  /\ receiveToLoc' = IF kind = "receive" THEN NoLoc ELSE receiveToLoc
  /\ sendQty' = IF kind = "send" THEN 1 ELSE sendQty
  /\ sendFromLoc' = IF kind = "send" THEN NoLoc ELSE sendFromLoc
  /\ moveQty' = IF kind = "transfer" THEN 1 ELSE moveQty
  /\ fromLoc' = IF kind = "transfer" THEN NoLoc ELSE fromLoc
  /\ toLoc' = IF kind = "transfer" THEN NoLoc ELSE toLoc
  /\ UNCHANGED invDelta

\* a submit of `kind` that has captured the render's state; order and store0
\* are history fields: the order in which the codes of the cart were first
\* added, and the per-location rows of the store when the submit began
NewTask(kind, batch, code, qty, from, to) ==
  [IdleTask EXCEPT !.kind = kind, !.batch = batch, !.code = code, !.qty = qty,
                   !.from = from, !.to = to, !.bal = locBalances,
                   !.lines = IF batch THEN cartLines ELSE <<>>,
                   !.order = IF batch THEN addedOrder ELSE <<>>,
                   !.store0 = onHandByLoc]

\* a single submit that sets the message `why` and goes on to the store call
RejectSingleGoesOn(t, rec, why) ==
  /\ task' = [task EXCEPT ![t] =
       [rec EXCEPT !.pc = "rpc", !.writes = <<FirstWrite(rec, rec.code, rec.qty)>>]]
  /\ invError' = Err(SinglePrefix(rec.kind), why)

\* a single submit that ends in its synchronous prefix with message `why`
RejectSingle(t, rec, why) ==
  /\ task' = [task EXCEPT ![t] = [rec EXCEPT !.pc = "done"]]
  /\ invError' = Err(SinglePrefix(rec.kind), why)

\* a single submit: the checks of the handler, then the single-line function
\* up to its store call
SubmitSingle(t, rec, missingLoc, missingWhy) ==
  /\ invSuccess' = NoSuccess
  /\ IF rec.code = NoCode
     THEN /\ invError' = NoMsg
          /\ task' = [task EXCEPT ![t] = [rec EXCEPT !.pc = "done"]]
     ELSE IF missingLoc
          THEN RejectSingle(t, rec, missingWhy)
          ELSE IF rec.qty <= 0
          THEN RejectSingle(t, rec, "quantity must be at least 1.")
          ELSE IF LineError(rec, rec.code, rec.qty) # ""
               THEN RejectSingle(t, rec, LineError(rec, rec.code, rec.qty))
               ELSE /\ invError' = NoMsg
                    /\ task' = [task EXCEPT ![t] =
                         [rec EXCEPT !.pc = "rpc",
                                     !.writes = <<FirstWrite(rec, rec.code, rec.qty)>>]]
  /\ UNCHANGED <<viewVars, scanVars, textVars,
                 storeVars, formVars, prodVars, cartVars, invStep, locBalances,
                 batchMode, invSubmitting, lookup, locFetch>>

submitReceive(t) ==
  /\ Quiet /\ task[t].pc = "idle"
  /\ invStep = "receive" /\ ~batchMode
  /\ SubmitSingle(t, NewTask("receive", FALSE, invProductCode, receiveQty, NoLoc, receiveToLoc),
                  receiveToLoc = NoLoc, "select a To location.")

submitSend(t) ==
  /\ Quiet /\ task[t].pc = "idle"
  /\ invStep = "send" /\ ~batchMode
  /\ SubmitSingle(t, NewTask("send", FALSE, invProductCode, sendQty, sendFromLoc, NoLoc),
                  sendFromLoc = NoLoc, "select a From location.")

submitMove(t) ==
  /\ Quiet /\ task[t].pc = "idle"
  /\ invStep = "transfer" /\ ~batchMode
  /\ SubmitSingle(t, NewTask("transfer", FALSE, invProductCode, moveQty, fromLoc, toLoc),
                  fromLoc = NoLoc \/ toLoc = NoLoc \/ fromLoc = toLoc,
                  IF fromLoc = NoLoc \/ toLoc = NoLoc
                  THEN "select both From and To locations."
                  ELSE "From and To cannot be the same location.")

\* ------------------------------------------------------ batch aggregator
FailedLine(line, error) ==
  [product_code |-> line.product_code, qty |-> line.qty, error |-> error]

\* failed.map((f) => ({ product_code: f.product_code, qty: f.qty }))
RetainedLines(failed) ==
  [i \in 1..Len(failed) |-> [product_code |-> failed[i].product_code, qty |-> failed[i].qty]]

\* a loop that issues the store call of the next line without awaiting the
\* call of the current one
RECURSIVE RunLoopNoAwait(_)
RunLoopNoAwait(rec) ==
  IF rec.idx > Len(rec.lines) THEN [rec EXCEPT !.pc = "afterLoop"]
  ELSE IF LineError(rec, rec.lines[rec.idx].product_code, rec.lines[rec.idx].qty) # ""
       THEN RunLoopNoAwait([rec EXCEPT
              !.failed = Append(@, FailedLine(rec.lines[rec.idx],
                            LineError(rec, rec.lines[rec.idx].product_code,
                                      rec.lines[rec.idx].qty))),
              !.idx = @ + 1])
       ELSE LET first == [rec EXCEPT !.pc = "rpc",
                            !.writes = Append(@, FirstWrite(rec, rec.lines[rec.idx].product_code,
                                                            rec.lines[rec.idx].qty))]
            IN IF rec.idx < Len(rec.lines)
               THEN [first EXCEPT
                       !.writes = Append(@, FirstWrite(rec, rec.lines[rec.idx + 1].product_code,
                                                       rec.lines[rec.idx + 1].qty))]
               ELSE first

\* `for (const line of cartLines)` from line rec.idx up to the next await: a
\* line whose single-line function throws before its store call is pushed on
\* `failed` and the loop goes on; the first line that reaches its store call
\* suspends the loop
RECURSIVE RunLoop(_)
RunLoop(rec) ==
  IF rec.idx > Len(rec.lines) THEN [rec EXCEPT !.pc = "afterLoop"]
  ELSE IF LineError(rec, rec.lines[rec.idx].product_code, rec.lines[rec.idx].qty) # ""
       THEN RunLoop([rec EXCEPT
              !.failed = Append(@, FailedLine(rec.lines[rec.idx],
                            LineError(rec, rec.lines[rec.idx].product_code,
                                      rec.lines[rec.idx].qty))),
              !.idx = @ + 1])
       ELSE [rec EXCEPT !.pc = "rpc",
               !.writes = Append(@, FirstWrite(rec, rec.lines[rec.idx].product_code,
                                               rec.lines[rec.idx].qty))]

\* the end of a batch submit that succeeded: success message, clearCart(),
\* inputs reset, finally setInvSubmitting(false)
BatchSuccess(t, rec) ==
  /\ task' = [task EXCEPT ![t] = [rec EXCEPT !.pc = "done"]]
  /\ invSuccess' = BatchComplete(BatchDone(rec.kind), SumQty(rec.lines), Len(rec.lines))
  /\ cartLines' = <<>>
  /\ addedOrder' = <<>>
  /\ ResetInputs(rec.kind)
  /\ invSubmitting' = FALSE

\* the batch submit after RunLoop: suspended at a store call, or past the
\* loop: with failures the cart is replaced by the failed lines and the
\* handler returns; without, the preview product is refreshed
BatchSettle(t, rec, start) ==
  IF rec.pc = "rpc"
  THEN /\ task' = [task EXCEPT ![t] = rec]
       /\ invError' = IF start THEN NoMsg ELSE invError
       /\ invSuccess' = IF start THEN NoSuccess ELSE invSuccess
       /\ invSubmitting' = TRUE
       /\ UNCHANGED <<formVars, cartLines, addedOrder>>
  ELSE IF rec.failed # <<>>
       THEN /\ task' = [task EXCEPT ![t] = [rec EXCEPT !.pc = "done"]]
            /\ invError' = SomeItemsFailed(rec.failed)
            /\ invSuccess' = IF start THEN NoSuccess ELSE invSuccess
            /\ cartLines' = RetainedLines(rec.failed)
            /\ addedOrder' = Filter(rec.order,
                 [i \in 1..Len(rec.order) |->
                    \E j \in 1..Len(rec.failed) : rec.failed[j].product_code = rec.order[i]])
            /\ invSubmitting' = FALSE
            /\ UNCHANGED formVars
       ELSE IF rec.code # NoCode
            THEN /\ task' = [task EXCEPT ![t] = [rec EXCEPT !.pc = "refG", !.reads = @ + 1]]
                 /\ invError' = IF start THEN NoMsg ELSE invError
                 /\ invSuccess' = IF start THEN NoSuccess ELSE invSuccess
                 /\ invSubmitting' = TRUE
                 /\ UNCHANGED <<formVars, cartLines, addedOrder>>
            ELSE /\ BatchSuccess(t, rec)
                 /\ invError' = IF start THEN NoMsg ELSE invError

\* a batch submit: the checks of the handler, setInvSubmitting(true), then the
\* loop up to its first await
SubmitBatch(t, rec, missingLoc, missingWhy) ==
  /\ IF missingLoc \/ rec.lines = <<>>
     THEN /\ task' = [task EXCEPT ![t] = [rec EXCEPT !.pc = "done"]]
          /\ invError' = Err(SinglePrefix(rec.kind),
                             IF missingLoc THEN missingWhy ELSE "cart is empty.")
          /\ invSuccess' = NoSuccess
          /\ UNCHANGED <<formVars, cartLines, addedOrder, invSubmitting>>
     ELSE BatchSettle(t, RunLoop([rec EXCEPT !.idx = 1]), TRUE)
  /\ UNCHANGED <<viewVars, scanVars, textVars,
                 storeVars, prodVars, invStep, locBalances, batchMode, activeCode,
                 lookup, locFetch>>

\* const previewCode = activeCode || invProductCode
PreviewCode == IF activeCode # NoCode THEN activeCode ELSE invProductCode

submitReceiveBatch(t) ==
  /\ Quiet /\ task[t].pc = "idle"
  /\ invStep = "receive" /\ batchMode
  /\ SubmitBatch(t, NewTask("receive", TRUE, PreviewCode, 0, NoLoc, receiveToLoc),
                 receiveToLoc = NoLoc, "select a To location.")

submitSendBatch(t) ==
  /\ Quiet /\ task[t].pc = "idle"
  /\ invStep = "send" /\ batchMode
  /\ SubmitBatch(t, NewTask("send", TRUE, PreviewCode, 0, sendFromLoc, NoLoc),
                 sendFromLoc = NoLoc, "select a From location.")

submitTransferBatch(t) ==
  /\ Quiet /\ task[t].pc = "idle"
  /\ invStep = "transfer" /\ batchMode
  /\ SubmitBatch(t, NewTask("transfer", TRUE, PreviewCode, 0, fromLoc, toLoc),
                 fromLoc = NoLoc \/ toLoc = NoLoc \/ fromLoc = toLoc,
                 IF fromLoc = NoLoc \/ toLoc = NoLoc
                 THEN "select both From and To locations."
                 ELSE "From and To cannot be the same location.")

\* ------------------------------------------- continuations of a submit
LastWrite(rec) == rec.writes[Len(rec.writes)]
Settled(rec, res) == [rec EXCEPT !.writes[Len(rec.writes)].res = res]
\* the quantity of the line the submission is at
CurQty(rec) == IF rec.batch THEN rec.lines[rec.idx].qty ELSE rec.qty

\* transferSingleLine going on to the credit without looking at out1.error
CreditDueUnchecked(rec, ok) == LastWrite(rec).reason = "transfer_out"

\* if (out1.error) throw out1.error: the credit is issued when the call that
\* returned is the debit and it returned without error
CreditDue(rec, ok) == ok /\ LastWrite(rec).reason = "transfer_out"

\* what transferSingleLine does when out1 has returned without error
AfterDebit(rec) ==
  [rec EXCEPT !.writes = Append(@, transferInWrite(LastWrite(rec).code, CurQty(rec), rec.to))]

\* a catch that gives the units back to the source when the credit failed
SingleRpcFailedCompensates(t, rec) ==
  /\ task' = [task EXCEPT ![t] =
       IF LastWrite(rec).reason = "transfer_in"
       THEN [rec EXCEPT !.writes = Append(@, Write(LastWrite(rec).code, rec.from,
                                                   LastWrite(rec).delta, "transfer_in"))]
       ELSE [rec EXCEPT !.pc = "done"]]
  /\ invError' = Err(SinglePrefix(rec.kind), StoreMsg)

\* what a single submit does when its single-line function throws the
\* store's error: the catch sets the message and the handler ends
SingleRpcFailed(t, rec) ==
  /\ task' = [task EXCEPT ![t] = [rec EXCEPT !.pc = "done"]]
  /\ invError' = Err(SinglePrefix(rec.kind), StoreMsg)

\* a loop that gives up at the first line the store refuses
LineFailedStops(rec) ==
  [rec EXCEPT !.failed = Append(@, FailedLine(rec.lines[rec.idx], StoreMsg)),
              !.idx = Len(rec.lines) + 1]

\* what the batch loop does with a line whose store call returned an error
LineFailed(rec) ==
  [rec EXCEPT !.failed = Append(@, FailedLine(rec.lines[rec.idx], StoreMsg)),
              !.idx = @ + 1]

\* what the batch loop does with a line whose store calls all succeeded
LineDone(rec) == [rec EXCEPT !.idx = @ + 1]

\* a supabase.rpc(ADJUST_LOC_RPC) call of submission t is answered: with
\* ok the store has applied the write, without it has returned an error
LocRpcSettles(t, ok) ==
  /\ Quiet
  /\ task[t].pc = "rpc"
  /\ IF ok
     THEN StoreApplyLocDelta(LastWrite(task[t]).code, LastWrite(task[t]).loc,
                             LastWrite(task[t]).delta)
     ELSE UNCHANGED storeVars
  /\ LET rec == Settled(task[t], IF ok THEN "ok" ELSE "error") IN
     IF CreditDue(rec, ok)
     THEN /\ task' = [task EXCEPT ![t] = AfterDebit(rec)]
          /\ UNCHANGED <<formVars, msgVars, cartLines, addedOrder, invSubmitting>>
     ELSE IF ~rec.batch
          THEN /\ IF ok
                  THEN /\ task' = [task EXCEPT ![t] = [rec EXCEPT !.pc = "refG", !.reads = @ + 1]]
                       /\ UNCHANGED invError
                  ELSE SingleRpcFailed(t, rec)
               /\ UNCHANGED <<formVars, invSuccess, cartLines, addedOrder, invSubmitting>>
          ELSE BatchSettle(t, RunLoop(IF ok THEN LineDone(rec) ELSE LineFailed(rec)), FALSE)
  /\ UNCHANGED <<viewVars, scanVars, textVars,
                 prodVars, invStep, locBalances, batchMode, activeCode, lookup, locFetch>>

\* a supabase.rpc(ADJUST_LOC_RPC) call of submission t returns; the store
\* applies the write when its rows cover it, or returns an error
LocRpcReturns(t, ok) ==
  /\ task[t].pc = "rpc"
  /\ ok => StoreAccepts(LastWrite(task[t]).code, LastWrite(task[t]).loc, LastWrite(task[t]).delta)
  /\ LocRpcSettles(t, ok)

\* the store applies a debit that the row of the location does not cover
\* (nothing in the repository says that the procedure refuses it): the row
\* goes below zero, by MaxOverdraw at most
LocRpcOverdraws(t) ==
  /\ task[t].pc = "rpc"
  /\ StoreOnHandAt(LastWrite(task[t]).code, LastWrite(task[t]).loc)
       + LastWrite(task[t]).delta < 0
  /\ StoreOnHandAt(LastWrite(task[t]).code, LastWrite(task[t]).loc)
       + LastWrite(task[t]).delta >= -MaxOverdraw
  /\ LocRpcSettles(t, TRUE)

\* a catch after a failed refresh that has no finally
RefreshFailedStaysSubmitting(t, rec) ==
  /\ task' = [task EXCEPT ![t] = [rec EXCEPT !.pc = "done"]]
  /\ invError' = Err(IF rec.batch THEN BatchPrefix(rec.kind) ELSE SinglePrefix(rec.kind),
                     StoreMsg)
  /\ UNCHANGED invSubmitting

\* the catch of the submit handler after a failed refresh
RefreshFailed(t, rec) ==
  /\ task' = [task EXCEPT ![t] = [rec EXCEPT !.pc = "done"]]
  /\ invError' = Err(IF rec.batch THEN BatchPrefix(rec.kind) ELSE SinglePrefix(rec.kind),
                     StoreMsg)
  /\ invSubmitting' = IF rec.batch THEN FALSE ELSE invSubmitting

\* refreshOnHandGlobal(code) of submission t returns
RefreshOnHandGlobalReturns(t, ok) ==
  /\ Quiet
  /\ task[t].pc = "refG"
  /\ IF ok
     THEN /\ invOnHand' = Some(GlobalOrZero(task[t].code))
          /\ task' = [task EXCEPT ![t].pc = "refL", ![t].reads = @ + 1]
          /\ UNCHANGED <<invError, invSubmitting>>
     ELSE /\ RefreshFailed(t, task[t])
          /\ UNCHANGED invOnHand
  /\ UNCHANGED <<viewVars, scanVars, textVars,
                 storeVars, formVars, cartVars, invStep, invProductCode, invLoading,
                 invAdjustments, invSearchError, invSearchBusy, invReqRef, invSuccess,
                 locBalances, batchMode, lookup, locFetch>>

\* refreshLocBalances(code) of submission t returns; on success the handler
\* runs to its end
RefreshLocBalancesReturns(t, ok) ==
  /\ Quiet
  /\ task[t].pc = "refL"
  /\ IF ok
     THEN /\ locBalances' = setLocBalances(locBalances, onHandByLoc[task[t].code])
          /\ UNCHANGED invError
          /\ IF task[t].batch
             THEN BatchSuccess(t, task[t]) /\ UNCHANGED activeCode
             ELSE /\ task' = [task EXCEPT ![t].pc = "done"]
                  /\ invSuccess' = Ok(SingleDone(task[t].kind))
                  /\ ResetInputs(task[t].kind)
                  /\ UNCHANGED <<cartVars, invSubmitting>>
     ELSE /\ RefreshFailed(t, task[t])
          /\ UNCHANGED <<formVars, cartVars, invSuccess, locBalances>>
  /\ UNCHANGED <<viewVars, scanVars, textVars,
                 storeVars, prodVars, invStep, batchMode, lookup, locFetch>>

\* the finished submission is forgotten; no program state changes.  Every
\* other action waits for this one, so a state with pc = "done" is the state
\* the program is in when the handler has just ended.
Dismiss(t) ==
  /\ task[t].pc = "done"
  /\ task' = [task EXCEPT ![t] = IdleTask]
  /\ UNCHANGED <<viewVars, scanVars, textVars,
                 storeVars, formVars, msgVars, prodVars, cartVars, invStep,
                 locBalances, batchMode, invSubmitting, lookup, locFetch>>

\* ------------------------------------------------------------ adjustment
\* canSubmit without its test of the delta
canSubmitAnyDelta ==
  /\ invProductCode # NoCode
  /\ invOnHand # Null
  /\ ~invLoading

\* const canSubmit = !!invProductCode && invOnHand != null && invDelta !== 0 && !invLoading
canSubmit ==
  /\ invProductCode # NoCode
  /\ invOnHand # Null
  /\ invDelta # 0
  /\ ~invLoading

\* adjust_inventory_test can apply delta to the global row of p
StoreAcceptsAdjust(p, delta) ==
  /\ GlobalOrZero(p) + delta >= 0
  /\ GlobalOrZero(p) + delta <= MaxStock

\* adjust_inventory_test applied: the global row moves by delta and the
\* adjustment is appended to the ledger
StoreApplyAdjust(p, delta) ==
  /\ onHandGlobal' = [onHandGlobal EXCEPT ![p] = Some(GlobalOrZero(p) + delta)]
  /\ adjLedger' = Append(adjLedger, [code |-> p, delta |-> delta])
  /\ UNCHANGED onHandByLoc

\* submitAdjustment up to its first await (the adjust RPC)
submitAdjustment(t) ==
  /\ Quiet /\ task[t].pc = "idle"
  /\ invStep = "adjust"
  /\ canSubmit => Len(adjLedger) < MaxLedger
  /\ invError' = NoMsg
  /\ invSuccess' = NoSuccess
  /\ task' = [task EXCEPT ![t] =
       IF ~canSubmit \/ invProductCode = NoCode
       THEN [IdleTask EXCEPT !.kind = "adjust", !.pc = "done", !.code = invProductCode,
                             !.qty = invDelta, !.store0 = onHandByLoc]
       ELSE [IdleTask EXCEPT !.kind = "adjust", !.pc = "adjRpc", !.code = invProductCode,
                             !.qty = invDelta, !.store0 = onHandByLoc,
                             !.writes = <<Write(invProductCode, NoLoc, invDelta, "adjust")>>]]
  /\ UNCHANGED <<viewVars, scanVars, textVars,
                 storeVars, formVars, prodVars, cartVars, invStep, locBalances,
                 batchMode, invSubmitting, lookup, locFetch>>

\* supabase.rpc(ADJUST_RPC) returns: on error the message is set and the
\* handler ends, otherwise the on-hand is read again
AdjustRpcReturns(t, ok) ==
  /\ Quiet
  /\ task[t].pc = "adjRpc"
  /\ ok => StoreAcceptsAdjust(task[t].code, task[t].qty)
  /\ IF ok
     THEN /\ StoreApplyAdjust(task[t].code, task[t].qty)
          /\ task' = [task EXCEPT ![t] = [Settled(task[t], "ok") EXCEPT
                                            !.pc = "adjRef", !.reads = @ + 1]]
          /\ UNCHANGED invError
     ELSE /\ UNCHANGED storeVars
          /\ task' = [task EXCEPT ![t] = [Settled(task[t], "error") EXCEPT !.pc = "done"]]
          /\ invError' = Err("Adjustment failed", StoreMsg)
  /\ UNCHANGED <<viewVars, scanVars, textVars,
                 formVars, prodVars, cartVars, invStep, invSuccess, locBalances,
                 batchMode, invSubmitting, lookup, locFetch>>

\* the on-hand read of submitAdjustment returns
AdjustRefreshReturns(t, ok) ==
  /\ Quiet
  /\ task[t].pc = "adjRef"
  /\ IF ok
     THEN /\ invOnHand' = Some(GlobalOrZero(task[t].code))
          /\ invDelta' = 0
          /\ invSuccess' = Ok("Inventory updated.")
          /\ task' = [task EXCEPT ![t].pc = "adjHist", ![t].reads = @ + 1]
          /\ UNCHANGED invError
     ELSE /\ invError' = Err("Adjustment saved, but refresh failed", StoreMsg)
          /\ task' = [task EXCEPT ![t].pc = "done"]
          /\ UNCHANGED <<invOnHand, invDelta, invSuccess>>
  /\ UNCHANGED <<viewVars, scanVars, textVars,
                 storeVars, cartVars, invStep, invProductCode, invLoading,
                 invAdjustments, invSearchError, invSearchBusy, invReqRef,
                 receiveToLoc, receiveQty, sendFromLoc, sendQty, fromLoc, toLoc,
                 moveQty, locBalances, batchMode, invSubmitting, lookup, locFetch>>

\* the history read of submitAdjustment returns
AdjustHistoryReturns(t, ok) ==
  /\ Quiet
  /\ task[t].pc = "adjHist"
  /\ invAdjustments' = IF ok THEN LastAdjustments(task[t].code) ELSE invAdjustments
  /\ task' = [task EXCEPT ![t].pc = "done"]
  /\ UNCHANGED <<viewVars, scanVars, textVars,
                 storeVars, formVars, msgVars, cartVars, invStep, invProductCode,
                 invOnHand, invLoading, invSearchError, invSearchBusy, invReqRef,
                 locBalances, batchMode, invSubmitting, lookup, locFetch>>

\* ------------------------------------------------------- specifications
\* The operator works one submission and one lookup at a time (slot 1).

\* nothing is in flight: no lookup, no submission, no balance fetch
Settled0 ==
  /\ \A k \in LookupIds : lookup[k].pc = "idle"
  /\ \A t \in TaskIds : task[t].pc = "idle"
  /\ locFetch = {}

\* The operator acts when the previous request has settled.
\* What the operator does in every workflow but adjust: look a product up,
\* switch the batch mode, edit the cart
Common ==
  \/ Settled0 /\ \E p \in Products : handleInventorySearch(1, p)
  \/ Settled0 /\ ToggleBatchMode
  \/ Settled0 /\ \E p \in Products : CartMinus(p)
  \/ Settled0 /\ \E p \in Products : CartPlus(p)
  \/ Settled0 /\ \E p \in Products : removeFromCart(p)
  \/ Settled0 /\ clearCart

ReceiveInputs ==
  \/ Settled0 /\ \E l \in Locs \cup {NoLoc} : setReceiveToLoc(l)
  \/ Settled0 /\ \E q \in 1..MaxQty : setReceiveQty(q)

SendInputs ==
  \/ Settled0 /\ \E l \in Locs \cup {NoLoc} : setSendFromLoc(l)
  \/ Settled0 /\ \E q \in 1..MaxQty : setSendQty(q)

MoveInputs ==
  \/ Settled0 /\ \E l \in Locs \cup {NoLoc} : setFromLoc(l)
  \/ Settled0 /\ \E l \in Locs \cup {NoLoc} : setToLoc(l)
  \/ Settled0 /\ \E q \in 1..MaxQty : setMoveQty(q)

AdjustInputs ==
  \/ Settled0 /\ \E p \in Products : handleInventorySearch(1, p)
  \/ Settled0 /\ DeltaMinus
  \/ Settled0 /\ DeltaPlus

\* the reads of a lookup return, with or without error
LookupReplies ==
  \/ SearchExistFails(1)
  \/ SearchExistFound(1)
  \/ \E ok \in BOOLEAN : ExistReturns(1, ok)
  \/ \E ok \in BOOLEAN : ImageReturns(1, ok)
  \/ \E ok \in BOOLEAN : OnHandReturns(1, ok)
  \/ \E ok \in BOOLEAN : AdjHistoryReturns(1, ok)
  \/ \E ok \in BOOLEAN : MovesReturns(1, ok)
  \/ \E ok \in BOOLEAN : SearchMovesReturns(1, ok)
  \/ \E p \in Products, ok \in BOOLEAN : EffectFetchReturns(p, ok)

\* the reads of a lookup return without error
LookupSucceeds ==
  \/ SearchExistFound(1)
  \/ ExistReturns(1, TRUE)
  \/ ImageReturns(1, TRUE)
  \/ OnHandReturns(1, TRUE)
  \/ AdjHistoryReturns(1, TRUE)
  \/ MovesReturns(1, TRUE)
  \/ SearchMovesReturns(1, TRUE)
  \/ \E p \in Products : EffectFetchReturns(p, TRUE)

\* the calls of a movement submit return, with or without error
MovementReplies ==
  \/ \E ok \in BOOLEAN : LocRpcReturns(1, ok)
  \/ \E ok \in BOOLEAN : RefreshOnHandGlobalReturns(1, ok)
  \/ \E ok \in BOOLEAN : RefreshLocBalancesReturns(1, ok)
  \/ Dismiss(1)

\* the calls of an adjustment return, with or without error
AdjustReplies ==
  \/ \E ok \in BOOLEAN : AdjustRpcReturns(1, ok)
  \/ \E ok \in BOOLEAN : AdjustRefreshReturns(1, ok)
  \/ \E ok \in BOOLEAN : AdjustHistoryReturns(1, ok)

\* The whole inventory mode.
Operator ==
  \/ Settled0 /\ \E s \in Steps : ChooseStep(s)
  \/ Common
  \/ ReceiveInputs
  \/ SendInputs
  \/ MoveInputs
  \/ Settled0 /\ DeltaMinus
  \/ Settled0 /\ DeltaPlus
  \/ Settled0 /\ submitReceive(1)
  \/ Settled0 /\ submitSend(1)
  \/ Settled0 /\ submitMove(1)
  \/ Settled0 /\ submitReceiveBatch(1)
  \/ Settled0 /\ submitSendBatch(1)
  \/ Settled0 /\ submitTransferBatch(1)
  \/ Settled0 /\ submitAdjustment(1)

Next == Operator \/ LookupReplies \/ MovementReplies \/ AdjustReplies

Spec == Init /\ [][Next]_vars

\* The send workflow, single and batch, against a store whose lookups succeed.
OperatorSend ==
  \/ Settled0 /\ ChooseStep("send")
  \/ Common
  \/ SendInputs
  \/ Settled0 /\ submitSend(1)
  \/ Settled0 /\ submitSendBatch(1)

NextSend == OperatorSend \/ LookupSucceeds \/ MovementReplies

SpecSend == Init /\ [][NextSend]_vars

\* The transfer workflow, single and batch, against a store whose lookups
\* succeed.
OperatorTransfer ==
  \/ Settled0 /\ ChooseStep("transfer")
  \/ Common
  \/ MoveInputs
  \/ Settled0 /\ submitMove(1)
  \/ Settled0 /\ submitTransferBatch(1)

NextTransfer == OperatorTransfer \/ LookupSucceeds \/ MovementReplies

SpecTransfer == Init /\ [][NextTransfer]_vars

\* The send and the transfer workflows.
NextMove == OperatorSend \/ OperatorTransfer \/ LookupSucceeds \/ MovementReplies

SpecMove == Init /\ [][NextMove]_vars

\* The batch submits of the three movement workflows, against a store whose
\* lookups succeed.
OperatorBatch ==
  \/ Settled0 /\ \E s \in Steps \ {"adjust"} : ChooseStep(s)
  \/ Common
  \/ Settled0 /\ \E l \in Locs \cup {NoLoc} : setReceiveToLoc(l)
  \/ Settled0 /\ \E l \in Locs \cup {NoLoc} : setSendFromLoc(l)
  \/ Settled0 /\ \E l \in Locs \cup {NoLoc} : setFromLoc(l)
  \/ Settled0 /\ \E l \in Locs \cup {NoLoc} : setToLoc(l)
  \/ Settled0 /\ submitReceiveBatch(1)
  \/ Settled0 /\ submitSendBatch(1)
  \/ Settled0 /\ submitTransferBatch(1)

NextBatch == OperatorBatch \/ LookupSucceeds \/ MovementReplies

SpecBatch == Init /\ [][NextBatch]_vars

\* The adjust workflow.
OperatorAdjust ==
  \/ Settled0 /\ ChooseStep("adjust")
  \/ AdjustInputs
  \/ Settled0 /\ submitAdjustment(1)

NextAdjust == OperatorAdjust \/ LookupReplies \/ AdjustReplies \/ Dismiss(1)

SpecAdjust == Init /\ [][NextAdjust]_vars

\* The lookups of an operator who does not wait: a search may start (Enter
\* in the search box) while the reads of an earlier one are outstanding.
LookupRepliesOf(k) ==
  \/ SearchExistFails(k)
  \/ SearchExistFound(k)
  \/ \E ok \in BOOLEAN : ExistReturns(k, ok)
  \/ \E ok \in BOOLEAN : ImageReturns(k, ok)
  \/ \E ok \in BOOLEAN : OnHandReturns(k, ok)
  \/ \E ok \in BOOLEAN : AdjHistoryReturns(k, ok)
  \/ \E ok \in BOOLEAN : MovesReturns(k, ok)
  \/ \E ok \in BOOLEAN : SearchMovesReturns(k, ok)

OperatorLookup ==
  \/ ChooseStep("receive")
  \/ \E k \in LookupIds, p \in Products : handleInventorySearch(k, p)

NextLookup ==
  \/ OperatorLookup
  \/ \E k \in LookupIds : LookupRepliesOf(k)
  \/ \E p \in Products, ok \in BOOLEAN : EffectFetchReturns(p, ok)

SpecLookup == Init /\ [][NextLookup]_vars

\* The camera scanner in a movement workflow, as time passes: decode events
\* arrive while the camera is on, whatever the previous one is doing.  The
\* labels are product codes and the reads of the lookups succeed.
OperatorScan ==
  \/ ChooseStep("receive")
  \/ \E ok \in BOOLEAN : startScan(ok)
  \/ stopScan
  \/ \E t \in Times : Tick(t)
  \/ \E text \in Products : Decode(1, text)

ScanReplies ==
  \/ ExistReturns(1, TRUE)
  \/ ImageReturns(1, TRUE)
  \/ OnHandReturns(1, TRUE)
  \/ AdjHistoryReturns(1, TRUE)
  \/ MovesReturns(1, TRUE)
  \/ ScanEnd(1)
  \/ \E p \in locFetch : EffectFetchReturns(p, TRUE)

NextScan == OperatorScan \/ ScanReplies

SpecScan == Init /\ [][NextScan]_vars

\* Entry of a code by the search box and by the camera, in single and in
\* batch mode: the texts are the product codes and a text that is no code.
Malformed == <<"b", "a", "g">>
EntryTexts == Products \cup {Malformed}

OperatorEntry ==
  \/ ChooseStep("receive")
  \/ Settled0 /\ ToggleBatchMode
  \/ Settled0 /\ startScan(TRUE)
  \/ Settled0 /\ stopScan
  \/ \E text \in EntryTexts : Decode(1, text)
  \/ Settled0 /\ \E text \in EntryTexts : handleInventorySearch(1, text)

EntryReplies ==
  \/ SearchExistFails(1)
  \/ SearchExistFound(1)
  \/ \E ok \in BOOLEAN : ExistReturns(1, ok)
  \/ ImageReturns(1, TRUE)
  \/ OnHandReturns(1, TRUE)
  \/ AdjHistoryReturns(1, TRUE)
  \/ MovesReturns(1, TRUE)
  \/ SearchMovesReturns(1, TRUE)
  \/ ScanEnd(1)
  \/ \E p \in locFetch : EffectFetchReturns(p, TRUE)

NextEntry == OperatorEntry \/ EntryReplies

SpecEntry == Init /\ [][NextEntry]_vars

\* The cart of a batch receive: lines are added by the search box and by
\* the camera, edited, removed, cleared and submitted, against a store whose
\* lookups succeed and whose writes may fail.
OperatorCart ==
  \/ Settled0 /\ ChooseStep("receive")
  \/ Common
  \/ Settled0 /\ \E p \in Products, q \in 0..MaxQty : updateCartQty(p, q)
  \/ Settled0 /\ setReceiveToLoc("L1")
  \/ Settled0 /\ startScan(TRUE)
  \/ Settled0 /\ stopScan
  \/ \E text \in Products : Decode(1, text)
  \/ Settled0 /\ submitReceiveBatch(1)

CartReplies ==
  \/ \E ok \in BOOLEAN : LocRpcReturns(1, ok)
  \/ RefreshOnHandGlobalReturns(1, TRUE)
  \/ RefreshLocBalancesReturns(1, TRUE)
  \/ Dismiss(1)

NextCart == OperatorCart \/ LookupSucceeds \/ ScanEnd(1) \/ CartReplies

SpecCart == Init /\ [][NextCart]_vars

\* The receive workflow in single and in batch mode: products come in by
\* the search box and by the camera, and the operator submits.
OperatorDefer ==
  \/ Settled0 /\ ChooseStep("receive")
  \/ Settled0 /\ \E p \in Products : handleInventorySearch(1, p)
  \/ Settled0 /\ ToggleBatchMode
  \/ Settled0 /\ setReceiveToLoc("L1")
  \/ Settled0 /\ startScan(TRUE)
  \/ Settled0 /\ stopScan
  \/ \E text \in Products : Decode(1, text)
  \/ Settled0 /\ submitReceive(1)
  \/ Settled0 /\ submitReceiveBatch(1)

NextDefer == OperatorDefer \/ LookupSucceeds \/ ScanEnd(1) \/ CartReplies

SpecDefer == Init /\ [][NextDefer]_vars

\* The receive workflow in single mode, against a store whose lookups
\* succeed and whose writes and refreshes may fail.
OperatorReceive ==
  \/ Settled0 /\ ChooseStep("receive")
  \/ Settled0 /\ \E p \in Products : handleInventorySearch(1, p)
  \/ ReceiveInputs
  \/ Settled0 /\ submitReceive(1)

NextReceive == OperatorReceive \/ LookupSucceeds \/ MovementReplies

SpecReceive == Init /\ [][NextReceive]_vars

\* The four workflows in single mode: the operator fills the panel in, or
\* leaves part of it empty, and confirms.  A quantity typed
\* as 0 is stored as 1.
OperatorSingle ==
  \/ Settled0 /\ \E s \in Steps : ChooseStep(s)
  \/ Settled0 /\ \E p \in Products : handleInventorySearch(1, p)
  \/ Settled0 /\ \E l \in Locs \cup {NoLoc} : setReceiveToLoc(l)
  \/ Settled0 /\ \E q \in 0..MaxQty : setReceiveQty(q)
  \/ Settled0 /\ \E l \in Locs \cup {NoLoc} : setSendFromLoc(l)
  \/ Settled0 /\ \E q \in 0..MaxQty : setSendQty(q)
  \/ Settled0 /\ \E l \in Locs \cup {NoLoc} : setFromLoc(l)
  \/ Settled0 /\ \E l \in Locs \cup {NoLoc} : setToLoc(l)
  \/ Settled0 /\ \E q \in 0..MaxQty : setMoveQty(q)
  \/ Settled0 /\ submitReceive(1)
  \/ Settled0 /\ submitSend(1)
  \/ Settled0 /\ submitMove(1)
  \/ Settled0 /\ DeltaMinus
  \/ Settled0 /\ DeltaPlus
  \/ Settled0 /\ submitAdjustment(1)

NextSingle == OperatorSingle \/ LookupSucceeds \/ MovementReplies \/ AdjustReplies

SpecSingle == Init /\ [][NextSingle]_vars

\* The receive and the adjust workflows of an operator who does not wait
\* for the lookup: the panel of a product is there as soon as its lookup has
\* started, and the reads of the lookup may fail.
OperatorGate ==
  \/ \E s \in {"receive", "adjust"} : ChooseStep(s)
  \/ \E p \in Products : handleInventorySearch(1, p)
  \/ setReceiveToLoc("L1")
  \/ submitReceive(1)
  \/ DeltaPlus
  \/ submitAdjustment(1)

NextGate ==
  \/ OperatorGate
  \/ LookupReplies
  \/ MovementReplies
  \/ \E ok \in BOOLEAN : AdjustRpcReturns(1, ok)
  \/ AdjustRefreshReturns(1, TRUE)
  \/ AdjustHistoryReturns(1, TRUE)

SpecGate == Init /\ [][NextGate]_vars

\* The receive workflow of an operator who does not wait for a lookup: a
\* search and a decode event start lookups while earlier ones are
\* outstanding; between the lookups a batch is filled and submitted.  Every
\* read and every write may fail.
NoSubmission == \A t \in TaskIds : task[t].pc = "idle"
MaxBusy == 2       \* lookups the operator who does not wait starts in one run

OperatorBusy ==
  \/ ChooseStep("receive")
  \/ Settled0 /\ ToggleBatchMode
  \/ /\ NoSubmission /\ invReqRef < MaxBusy
     /\ \E p \in Products : handleInventorySearch(1, p)
  \/ Settled0 /\ startScan(TRUE)
  \/ /\ NoSubmission /\ invReqRef < MaxBusy
     /\ \E text \in Products : Decode(2, text)
  \/ Settled0 /\ setReceiveToLoc("L1")
  \/ Settled0 /\ submitReceiveBatch(1)

NextBusy ==
  \/ OperatorBusy
  \/ \E k \in LookupIds : LookupRepliesOf(k)
  \/ ScanEnd(2)
  \/ \E p \in locFetch : EffectFetchReturns(p, TRUE)
  \/ MovementReplies

SpecBusy == Init /\ [][NextBusy]_vars

\* The send and the transfer workflows of an operator who confirms again
\* before the first submission has returned (a double tap), against a store
\* that may refuse a debit its rows do not cover or apply it.
OperatorRace ==
  \/ Settled0 /\ \E s \in {"send", "transfer"} : ChooseStep(s)
  \/ Settled0 /\ handleInventorySearch(1, CodeA)
  \/ Settled0 /\ setSendFromLoc("L1")
  \/ Settled0 /\ \E q \in 1..MaxQty : setSendQty(q)
  \/ Settled0 /\ setFromLoc("L1")
  \/ Settled0 /\ setToLoc("L2")
  \/ \E t \in TaskIds : submitSend(t)
  \/ \E t \in TaskIds : submitMove(t)

NextRace ==
  \/ OperatorRace
  \/ LookupSucceeds
  \/ \E t \in TaskIds, ok \in BOOLEAN : LocRpcReturns(t, ok)
  \/ \E t \in TaskIds : LocRpcOverdraws(t)
  \/ \E t \in TaskIds : RefreshOnHandGlobalReturns(t, TRUE)
  \/ \E t \in TaskIds : RefreshLocBalancesReturns(t, TRUE)
  \/ \E t \in TaskIds : Dismiss(t)

SpecRace == Init /\ [][NextRace]_vars

\* The balance cache in the receive and the send workflows: products are
\* looked up, and a receive or a batch send may be confirmed as soon as the
\* panel of the product is there, before the balances of the product have
\* been fetched; a batch refreshes the cache for the product of the preview.
OperatorCache ==
  \/ Settled0 /\ \E s \in {"receive", "send"} : ChooseStep(s)
  \/ Settled0 /\ \E p \in Products : handleInventorySearch(1, p)
  \/ Settled0 /\ \E l \in Locs : setReceiveToLoc(l)
  \/ submitReceive(1)
  \/ Settled0 /\ ToggleBatchMode
  \/ \E p \in Products : removeFromCart(p)
  \/ Settled0 /\ setSendFromLoc("L1")
  \/ submitSendBatch(1)

NextCache == OperatorCache \/ LookupSucceeds \/ MovementReplies

SpecCache == Init /\ [][NextCache]_vars

\* The single transfer of an operator who tries again after a failure: the
\* reads of the lookup and the refreshes succeed, and each leg of a transfer
\* may fail.
OperatorRetry ==
  \/ Settled0 /\ ChooseStep("transfer")
  \/ Settled0 /\ \E p \in Products : handleInventorySearch(1, p)
  \/ Settled0 /\ \E l \in Locs : setFromLoc(l)
  \/ Settled0 /\ \E l \in Locs : setToLoc(l)
  \/ Settled0 /\ \E q \in 1..MaxQty : setMoveQty(q)
  \/ Settled0 /\ submitMove(1)

NextRetry ==
  \/ OperatorRetry
  \/ LookupSucceeds
  \/ \E ok \in BOOLEAN : LocRpcReturns(1, ok)
  \/ RefreshOnHandGlobalReturns(1, TRUE)
  \/ RefreshLocBalancesReturns(1, TRUE)
  \/ Dismiss(1)

SpecRetry == Init /\ [][NextRetry]_vars

\* The receive workflow of an operator who confirms again while a submission
\* is running: single and batch receives start in whichever slot is free.
OperatorDouble ==
  \/ Settled0 /\ ChooseStep("receive")
  \/ Settled0 /\ \E p \in Products : handleInventorySearch(1, p)
  \/ Settled0 /\ ToggleBatchMode
  \/ Settled0 /\ setReceiveToLoc("L1")
  \/ \E t \in TaskIds : submitReceive(t)
  \/ \E t \in TaskIds : submitReceiveBatch(t)

NextDouble ==
  \/ OperatorDouble
  \/ LookupSucceeds
  \/ \E t \in TaskIds, ok \in BOOLEAN : LocRpcReturns(t, ok)
  \/ \E t \in TaskIds : RefreshOnHandGlobalReturns(t, TRUE)
  \/ \E t \in TaskIds : RefreshLocBalancesReturns(t, TRUE)
  \/ \E t \in TaskIds : Dismiss(t)

SpecDouble == Init /\ [][NextDouble]_vars

\* The cart of a batch receive while its submit is running: the operator
\* submits when everything has settled, and then goes on searching products
\* and removing lines before the store calls of the batch have returned.
OperatorDuring ==
  \/ Settled0 /\ ChooseStep("receive")
  \/ Settled0 /\ ToggleBatchMode
  \/ Settled0 /\ setReceiveToLoc("L1")
  \/ \E p \in Products : handleInventorySearch(1, p)
  \/ \E p \in Products : removeFromCart(p)
  \/ Settled0 /\ submitReceiveBatch(1)

NextDuring == OperatorDuring \/ LookupSucceeds \/ CartReplies

SpecDuring == Init /\ [][NextDuring]_vars

\* Entry of codes the catalog may not have, in single and in batch mode: the
\* labels and the typed texts are the product codes and a code of the right
\* format that is not in the catalog.
Unlisted == <<"N", "-", "1", "-", "1", "-", "1">>
ListedOrNot == Products \cup {Unlisted}

OperatorUnlisted ==
  \/ ChooseStep("receive")
  \/ Settled0 /\ ToggleBatchMode
  \/ Settled0 /\ startScan(TRUE)
  \/ Settled0 /\ stopScan
  \/ \E text \in ListedOrNot : Decode(1, text)
  \/ Settled0 /\ \E text \in ListedOrNot : handleInventorySearch(1, text)

NextUnlisted == OperatorUnlisted \/ EntryReplies

SpecUnlisted == Init /\ [][NextUnlisted]_vars

\* Leaving a workflow while a lookup is running: the operator searches a
\* product and, without waiting for its reads, goes back to the menu or to
\* the home screen and comes in again.
OperatorReset ==
  \/ \E s \in {"receive", "adjust"} : ChooseStep(s)
  \/ \E p \in Products : handleInventorySearch(1, p)
  \/ WorkflowBack
  \/ BackHome
  \/ OpenInventory

NextReset == OperatorReset \/ LookupReplies

SpecReset == Init /\ [][NextReset]_vars

\* The balance fetches of an operator who does not wait: a search may start
\* while the reads and the balance fetch of an earlier one are outstanding.
\* The reads of a lookup may fail; the balance fetches succeed, in whatever
\* order the store answers them.
NextFetch ==
  \/ OperatorLookup
  \/ \E k \in LookupIds : LookupRepliesOf(k)
  \/ \E p \in locFetch : EffectFetchReturns(p, TRUE)

SpecFetch == Init /\ [][NextFetch]_vars

\* The camera scanner with decode events that overlap: an event may arrive
\* whatever the handler of an earlier one is doing, and its handler would
\* run in whichever slot is free.  The reads of a lookup may fail.
OperatorOverlap ==
  \/ ChooseStep("receive")
  \/ Settled0 /\ ToggleBatchMode
  \/ Settled0 /\ startScan(TRUE)
  \/ \E k \in LookupIds, text \in Products : Decode(k, text)

NextOverlap ==
  \/ OperatorOverlap
  \/ \E k \in LookupIds, ok \in BOOLEAN : ExistReturns(k, ok)
  \/ \E k \in LookupIds, ok \in BOOLEAN : ImageReturns(k, ok)
  \/ \E k \in LookupIds, ok \in BOOLEAN : OnHandReturns(k, ok)
  \/ \E k \in LookupIds, ok \in BOOLEAN : AdjHistoryReturns(k, ok)
  \/ \E k \in LookupIds, ok \in BOOLEAN : MovesReturns(k, ok)
  \/ \E k \in LookupIds : ScanEnd(k)
  \/ \E p \in locFetch : EffectFetchReturns(p, TRUE)

SpecOverlap == Init /\ [][NextOverlap]_vars

\* A tag held in view of the camera, in single and in batch mode: decode
\* events of the products keep arriving as time passes, and the reads of the
\* lookups succeed.
OperatorHeld ==
  \/ ChooseStep("receive")
  \/ Settled0 /\ ToggleBatchMode
  \/ Settled0 /\ startScan(TRUE)
  \/ \E t \in Times : Tick(t)
  \/ \E text \in Products : Decode(1, text)

NextHeld == OperatorHeld \/ ScanReplies

SpecHeld == Init /\ [][NextHeld]_vars

\* The life of the cart of a batch receive: it is filled from the search
\* box, submitted, and dropped by leaving the workflow or the inventory mode.
OperatorDiscard ==
  \/ Settled0 /\ ChooseStep("receive")
  \/ Settled0 /\ \E p \in Products : handleInventorySearch(1, p)
  \/ Settled0 /\ ToggleBatchMode
  \/ Settled0 /\ setReceiveToLoc("L1")
  \/ Settled0 /\ submitReceiveBatch(1)
  \/ Settled0 /\ WorkflowBack
  \/ Settled0 /\ BackHome
  \/ Settled0 /\ OpenInventory

NextDiscard == OperatorDiscard \/ LookupSucceeds \/ CartReplies

SpecDiscard == Init /\ [][NextDiscard]_vars

\* The text functions on their own: a text is given, normalizeProductCode
\* and isValidProductCodeFormat are applied to it.
MaxSegments == 5     \* hyphen-separated groups of a text given to the format check

\* a product code as it is printed on a label, and with lower-case letters
CleanCodes == Products \cup {<<"a", "b", "-", "1", "-", "2", "-", "1">>}
PathPrefixes == {<<>>, <<"w", "/">>, <<"w", "/", "p", "/">>}
ExtSuffixes == {<<>>, <<".", "p", "n", "g">>, <<".", "j", "p", "g">>,
                <<".", "j", "p", "e", "g">>, <<".", "w", "e", "b", "p">>,
                <<".", "J", "P", "G">>}
SlashSuffixes == {<<>>, <<"/">>}
QuerySuffixes == {<<>>, <<"?", "a", "=", "1">>}
FragmentSuffixes == {<<>>, <<"#", "a">>}
\* code with the decorations of a URL around it
Decorated(code, prefix, ext, slash, query, fragment) ==
  prefix \o code \o ext \o slash \o query \o fragment
DecoratedTexts ==
  {Decorated(c, p, e, sl, q, f) :
     c \in CleanCodes, p \in PathPrefixes, e \in ExtSuffixes,
     sl \in SlashSuffixes, q \in QuerySuffixes, f \in FragmentSuffixes}

\* groups a text given to the format check is made of
Groups == {<<>>, <<"A">>, <<"a", "1">>, <<"A", "B", "1", "2", "a", "b">>,
           <<"A", "B", "1", "2", "a", "b", "1">>, <<"A", "_">>}
RECURSIVE JoinGroups(_)
JoinGroups(gs) ==
  IF Len(gs) = 0 THEN <<>>
  ELSE IF Len(gs) = 1 THEN gs[1]
       ELSE gs[1] \o <<"-">> \o JoinGroups(Tail(gs))
GroupLists == UNION {[1..n -> Groups] : n \in 1..MaxSegments}
SegmentedTexts == {JoinGroups(gs) : gs \in GroupLists}

InitText ==
  /\ onHandByLoc = [p \in Products |-> EmptyRows]
  /\ onHandGlobal = [p \in Products |-> Null]
  /\ adjLedger = <<>>
  /\ invStep = "menu" /\ invProductCode = NoCode /\ invOnHand = Null
  /\ invLoading = FALSE /\ invAdjustments = <<>> /\ invError = NoMsg
  /\ invSuccess = NoSuccess /\ invSearchError = "" /\ invSearchBusy = FALSE
  /\ invDelta = 0 /\ receiveToLoc = NoLoc /\ receiveQty = 1
  /\ sendFromLoc = NoLoc /\ sendQty = 1 /\ fromLoc = NoLoc /\ toLoc = NoLoc
  /\ moveQty = 1 /\ locBalances = EmptyRows /\ batchMode = FALSE
  /\ cartLines = <<>> /\ activeCode = NoCode /\ invSubmitting = FALSE
  /\ invReqRef = 0
  /\ task = [t \in TaskIds |-> IdleTask]
  /\ lookup = [k \in LookupIds |-> IdleLookup]
  /\ locFetch = {} /\ addedOrder = <<>>
  /\ mode = "home" /\ scanError = "" /\ invImageUrl = NoCode /\ invMoves = NoCode
  /\ isScanning = FALSE /\ lastScanRef = [code |-> NoCode, ts |-> 0]
  /\ invScanBusyRef = FALSE /\ now = StartTime /\ scanBatchMode = FALSE
  /\ lastDecode = NoDecode
  /\ rawText \in DecoratedTexts \cup SegmentedTexts
  /\ textResult = NoResult

\* normalizeProductCode(rawText) and isValidProductCodeFormat of its result
NormalizeText ==
  /\ ~textResult.done
  /\ textResult' = [done |-> TRUE, code |-> normalizeProductCode(rawText),
                    valid |-> isValidProductCodeFormat(normalizeProductCode(rawText))]
  /\ UNCHANGED <<viewVars, scanVars, rawText, storeVars, formVars, msgVars,
                 prodVars, cartVars, asyncVars, invStep, locBalances, batchMode,
                 invSubmitting>>

NextText == NormalizeText

SpecText == InitText /\ [][NextText]_vars

\* ---------------------------------------------------------------- claims
\* the positions of the store calls of rec made for product `code`
WritesFor(rec, code) == {i \in 1..Len(rec.writes) : rec.writes[i].code = code}

\* a request that gets as far as the stock check of its single-line function
ReachesStockCheck(rec) ==
  /\ rec.kind \in {"send", "transfer"}
  /\ rec.from # NoLoc
  /\ rec.kind = "transfer" => rec.to # NoLoc /\ rec.to # rec.from
  /\ IF rec.batch THEN rec.lines # <<>> ELSE rec.code # NoCode

\* line i of a batch asks for more than the cached on-hand at the from-location
LineInsufficient(rec, i) ==
  LineQty(rec.lines[i].qty) > getOnHandAt(rec.bal, rec.from)

\* C1: a send or a transfer (single, or a line of a batch) whose quantity
\* exceeds the cached on-hand at the from-location fails with "Insufficient
\* stock", and no adjust-by-location call is ever issued for it.
C1_InsufficientStockNoWrite ==
  \A t \in TaskIds :
    LET rec == task[t] IN
    ReachesStockCheck(rec) =>
      /\ (~rec.batch /\ LineQty(rec.qty) > getOnHandAt(rec.bal, rec.from)) =>
            /\ rec.pc = "done"
            /\ rec.writes = <<>>
            /\ invError = Err(SinglePrefix(rec.kind), "Insufficient stock")
      /\ rec.batch =>
            \A i \in 1..Len(rec.lines) :
              LineInsufficient(rec, i) =>
                /\ WritesFor(rec, rec.lines[i].product_code) = {}
                /\ i < rec.idx =>
                     \E j \in 1..Len(rec.failed) :
                       rec.failed[j] = FailedLine(rec.lines[i], "Insufficient stock")
                /\ rec.pc = "done" => invError = SomeItemsFailed(rec.failed)

\* C1 witness: a batch has ended in which one line was refused for
\* insufficient stock and the store accepted the call of another line
C1_Witness ==
  \E t \in TaskIds :
    LET rec == task[t] IN
    /\ ReachesStockCheck(rec) /\ rec.batch /\ rec.pc = "done"
    /\ \E i \in 1..Len(rec.lines) : LineInsufficient(rec, i)
    /\ \E j \in 1..Len(rec.writes) : rec.writes[j].res = "ok"

\* a single send has ended with its success message
SendSucceeded(rec) ==
  /\ rec.kind = "send" /\ ~rec.batch /\ rec.pc = "done"
  /\ invSuccess = Ok(SingleDone("send"))

\* the cache agreed with the store at the from-location when the send was
\* submitted: nothing was written there since the cache was last refreshed
CacheCurrent(rec) ==
  getOnHandAt(rec.bal, rec.from) = getOnHandAt(rec.store0[rec.code], rec.from)

\* C2: a single send of 1 <= qty <= cached on-hand whose store call succeeds
\* is exactly one write of -qty at the from-location, and after the refresh
\* the cached on-hand at the from-location is the previous value minus qty
\* (no other writer having touched the row since the cache was read).
C2_SendAppliedOnce ==
  \A t \in TaskIds :
    LET rec == task[t] IN
    (SendSucceeded(rec) /\ CacheCurrent(rec)) =>
      /\ rec.qty >= 1 /\ rec.qty <= getOnHandAt(rec.bal, rec.from)
      /\ Len(rec.writes) = 1
      /\ rec.writes[1].code = rec.code
      /\ rec.writes[1].loc = rec.from
      /\ rec.writes[1].delta = -rec.qty
      /\ rec.writes[1].res = "ok"
      /\ getOnHandAt(locBalances, rec.from) = getOnHandAt(rec.bal, rec.from) - rec.qty
      /\ StoreOnHandAt(rec.code, rec.from) = getOnHandAt(locBalances, rec.from)

\* C2 witness: a single send of the whole cached on-hand has succeeded and
\* left the cached on-hand at the from-location at 0
C2_Witness ==
  \E t \in TaskIds :
    LET rec == task[t] IN
    /\ SendSucceeded(rec) /\ CacheCurrent(rec)
    /\ rec.qty = getOnHandAt(rec.bal, rec.from)
    /\ rec.qty = MaxQty
    /\ getOnHandAt(locBalances, rec.from) = 0

\* the credits of rec that the store refused
FailedCredits(rec) ==
  {j \in 1..Len(rec.writes) :
     rec.writes[j].reason = "transfer_in" /\ rec.writes[j].res = "error"}

\* C3: when the debit of a transfer succeeded and its credit failed, no
\* further store call is issued for that transfer (the source is not
\* credited back): the store holds the source debited by qty and the
\* destination as it was.
C3_NoCompensation ==
  \A t \in TaskIds :
    LET rec == task[t] IN
    rec.kind = "transfer" =>
      \A j \in FailedCredits(rec) :
        LET c == rec.writes[j].code
            q == rec.writes[j].delta IN
        /\ \A k \in (j + 1)..Len(rec.writes) : rec.writes[k].code # c
        /\ ~rec.batch => rec.pc = "done" /\ Len(rec.writes) = j
        /\ StoreOnHandAt(c, rec.from) = getOnHandAt(rec.store0[c], rec.from) - q
        /\ StoreOnHandAt(c, rec.to) = getOnHandAt(rec.store0[c], rec.to)

\* C3 witness: a single transfer has ended with its debit applied and its
\* credit refused
C3_Witness ==
  \E t \in TaskIds :
    LET rec == task[t] IN
    /\ rec.kind = "transfer" /\ ~rec.batch /\ rec.pc = "done"
    /\ Len(rec.writes) = 2
    /\ rec.writes[1].res = "ok"
    /\ 2 \in FailedCredits(rec)

\* what a single transfer reports when its debit failed and nothing was
\* written: "Move failed: <the store's message>"
DebitFailureReport == Err(SinglePrefix("transfer"), StoreMsg)

\* C4: the outcome reported for a transfer whose debit succeeded and whose
\* credit failed is of a kind of its own: it differs from the outcome
\* reported for a transfer whose debit failed.
C4_NonAtomicFailureDistinct ==
  \A t \in TaskIds :
    LET rec == task[t] IN
    (rec.kind = "transfer" /\ ~rec.batch /\ rec.pc = "done" /\ FailedCredits(rec) # {}) =>
      invError # DebitFailureReport

\* C4 witness: a single transfer has ended with its debit refused, nothing
\* written, and the report of a failed debit
C4_Witness ==
  \E t \in TaskIds :
    LET rec == task[t] IN
    /\ rec.kind = "transfer" /\ ~rec.batch /\ rec.pc = "done"
    /\ Len(rec.writes) = 1
    /\ rec.writes[1].reason = "transfer_out" /\ rec.writes[1].res = "error"
    /\ onHandByLoc = rec.store0
    /\ invError = DebitFailureReport

\* the quantity asked for product `code` by rec
QtyOf(rec, code) ==
  IF rec.batch THEN rec.lines[FindIndex(rec.lines, code)].qty ELSE rec.qty

\* C5: a transfer is a debit (-qty, transfer_out) at the from-location
\* followed by a credit (+qty, transfer_in) at the to-location; the credit
\* is issued only after the debit has returned success, and a transfer
\* whose debit failed never has a credit issued.
C5_CreditOnlyAfterDebit ==
  \A t \in TaskIds :
    LET rec == task[t] IN
    rec.kind = "transfer" =>
      \A j \in 1..Len(rec.writes) :
        LET w == rec.writes[j] IN
        /\ w.reason \in {"transfer_out", "transfer_in"}
        /\ w.reason = "transfer_out" =>
             /\ w.loc = rec.from
             /\ w.delta = -QtyOf(rec, w.code)
             /\ w.res = "error" =>
                  \A k \in 1..Len(rec.writes) :
                    rec.writes[k].reason = "transfer_in" => rec.writes[k].code # w.code
        /\ w.reason = "transfer_in" =>
             /\ j > 1
             /\ rec.writes[j - 1].reason = "transfer_out"
             /\ rec.writes[j - 1].res = "ok"
             /\ rec.writes[j - 1].code = w.code
             /\ w.loc = rec.to
             /\ w.delta = QtyOf(rec, w.code)

\* C5 witness: a batch transfer has ended in which the debit of one line
\* failed and both legs of another line were applied
C5_Witness ==
  \E t \in TaskIds :
    LET rec == task[t] IN
    /\ rec.kind = "transfer" /\ rec.batch /\ rec.pc = "done"
    /\ \E j \in 1..Len(rec.writes) :
         rec.writes[j].reason = "transfer_out" /\ rec.writes[j].res = "error"
    /\ \E j \in 1..Len(rec.writes) :
         rec.writes[j].reason = "transfer_in" /\ rec.writes[j].res = "ok"

\* C6: an adjust submission with delta = 0 is rejected before any store
\* call: the step that submits it ends the handler with no adjustment call
\* and no refresh query issued, and leaves the store, the cached on-hand and
\* the adjustment history as they were.
C6_ZeroDeltaRejected ==
  [][\A t \in TaskIds :
       (task[t].pc = "idle" /\ task'[t].kind = "adjust" /\ invDelta = 0) =>
         /\ task'[t].pc = "done"
         /\ task'[t].writes = <<>>
         /\ task'[t].reads = 0
         /\ UNCHANGED <<storeVars, invOnHand, invAdjustments>>]_vars

\* C6 witness: an adjustment of a loaded product with delta 0 has been
\* submitted and has ended without a store call
C6_Witness ==
  \E t \in TaskIds :
    /\ task[t].kind = "adjust" /\ task[t].pc = "done"
    /\ task[t].qty = 0 /\ task[t].code # NoCode
    /\ invOnHand # Null /\ ~invLoading
    /\ task[t].writes = <<>> /\ task[t].reads = 0

\* a batch submit that passed the checks of its handler and has ended
BatchEnded(rec) == rec.batch /\ rec.pc = "done" /\ rec.idx >= 1

\* line i of the batch failed: its single-line function threw before its
\* store call, or the store refused one of its calls
LineFailedInLog(rec, i) ==
  \/ LineError(rec, rec.lines[i].product_code, rec.lines[i].qty) # ""
  \/ \E j \in WritesFor(rec, rec.lines[i].product_code) : rec.writes[j].res = "error"

\* line i of the batch went through: every store call of it succeeded
LineSucceeded(rec, i) ==
  /\ WritesFor(rec, rec.lines[i].product_code) # {}
  /\ \A j \in WritesFor(rec, rec.lines[i].product_code) : rec.writes[j].res = "ok"

\* C7: a batch submit (receive, send or transfer) attempts the movement of
\* every cart line, also after a line has failed, and when it ends with at
\* least one failure the cart is exactly the failed lines, in their order,
\* each with its code and quantity.
C7_EveryLineAttemptedFailedRetained ==
  \A t \in TaskIds :
    LET rec == task[t] IN
    BatchEnded(rec) =>
      /\ rec.idx = Len(rec.lines) + 1
      /\ \A i \in 1..Len(rec.lines) : LineFailedInLog(rec, i) \/ LineSucceeded(rec, i)
      /\ (\E i \in 1..Len(rec.lines) : LineFailedInLog(rec, i)) =>
           cartLines = Filter(rec.lines, [i \in 1..Len(rec.lines) |-> LineFailedInLog(rec, i)])

\* C7 witness: a batch has ended whose first line was refused by the store
\* and whose second line went through; the cart holds the first line only
C7_Witness ==
  \E t \in TaskIds :
    LET rec == task[t] IN
    /\ BatchEnded(rec) /\ Len(rec.lines) = 2
    /\ rec.writes # <<>> /\ rec.writes[1].res = "error"
    /\ rec.writes[1].code = rec.lines[1].product_code
    /\ LineSucceeded(rec, 2)
    /\ cartLines = <<rec.lines[1]>>

\* the position of code in the sequence of codes s, 0 when absent
Pos(s, code) ==
  IF \E i \in 1..Len(s) : s[i] = code
  THEN CHOOSE i \in 1..Len(s) : s[i] = code /\ \A j \in 1..(i - 1) : s[j] # code
  ELSE 0

SucceededLines(rec) ==
  Filter(rec.lines, [i \in 1..Len(rec.lines) |-> LineSucceeded(rec, i)])

\* C9: when a batch ends with some lines succeeded and some failed, the
\* result reports the number of lines that went through and their unit
\* total.
C9_PartialResultReportsSuccesses ==
  \A t \in TaskIds :
    LET rec == task[t] IN
    (BatchEnded(rec) /\ rec.failed # <<>> /\ SucceededLines(rec) # <<>>) =>
      /\ invSuccess.items = Len(SucceededLines(rec))
      /\ invSuccess.units = SumQty(SucceededLines(rec))

\* C9 witness: a batch has ended with a line that went through and a line
\* that failed
C9_Witness ==
  \E t \in TaskIds :
    LET rec == task[t] IN
    /\ BatchEnded(rec) /\ rec.failed # <<>> /\ SucceededLines(rec) # <<>>
    /\ invError = SomeItemsFailed(rec.failed)

\* C10: the lines of a batch are processed one after the other: a store call
\* is issued only when every earlier store call of the submit has returned,
\* so the submit never has more than one movement call in flight.
C10_OneCallInFlight ==
  \A t \in TaskIds :
    LET rec == task[t] IN
    rec.batch =>
      /\ \A j \in 1..(Len(rec.writes) - 1) : rec.writes[j].res # "pending"
      /\ rec.pc # "rpc" => \A j \in 1..Len(rec.writes) : rec.writes[j].res # "pending"

\* C10 witness: the store call of the second line of a batch is in flight
\* and the call of the first line has returned
C10_Witness ==
  \E t \in TaskIds :
    LET rec == task[t] IN
    /\ rec.batch /\ rec.pc = "rpc" /\ rec.idx = 2
    /\ Len(rec.writes) >= 2
    /\ LastWrite(rec).res = "pending"
    /\ LastWrite(rec).code = rec.lines[2].product_code
    /\ rec.writes[1].code = rec.lines[1].product_code

\* the steps of handleInventoryModeScan and of loadRecentMoves at which a
\* continuation of a started lookup runs
GuardedSteps == {"exist", "image", "onhand", "adj", "moves", "searchMoves"}

\* the continuation of lookup k runs in this step, after a newer lookup has
\* started
StaleContinuation(k) ==
  /\ lookup[k].pc \in GuardedSteps
  /\ lookup[k].reqId # 0
  /\ lookup[k].reqId < invReqRef
  /\ lookup'[k] # lookup[k]

\* C11: a continuation of lookup generation N that runs after generation
\* N+1 has started changes none of the shared result state: scan error,
\* image URL, on-hand, adjustment history, movement history, loading flag.
C11_StaleContinuationMutatesNothing ==
  [][\A k \in LookupIds :
       StaleContinuation(k) =>
         UNCHANGED <<scanError, invImageUrl, invOnHand, invAdjustments,
                     invMoves, invLoading>>]_vars

\* C11 witness: the movement history shown is that of a product other than
\* the current one, whose lookup has finished
C11_Witness ==
  /\ invProductCode # NoCode
  /\ invMoves # NoCode
  /\ invMoves # invProductCode
  /\ ~invLoading
  /\ \A k \in LookupIds : lookup[k].pc = "idle"

\* C12: the debouncer suppresses a decode event exactly when its normalized
\* code is the last accepted code and less than 900 ms have passed since
\* that code was accepted; an event that is not suppressed becomes the last
\* accepted {code, timestamp}.
C12_SuppressedIffRepeatWithin900 ==
  lastDecode.outcome # "none" =>
    /\ lastDecode.outcome = "suppressed" <=>
         /\ lastDecode.code = lastDecode.last.code
         /\ lastDecode.at - lastDecode.last.ts < 900
    /\ lastDecode.outcome # "suppressed" =>
         lastScanRef = [code |-> lastDecode.code, ts |-> lastDecode.at]

\* C12 witness: a code decoded again 899 ms after it was accepted has been
\* suppressed
C12_Witness ==
  /\ lastDecode.outcome = "suppressed"
  /\ lastDecode.code \in Products
  /\ lastDecode.at - lastDecode.last.ts = 899

\* the writes of rec that the store applied
AppliedWrites(rec) == {j \in 1..Len(rec.writes) : rec.writes[j].res = "ok"}

\* submission rec ended in the catch of a refresh that the store failed
RefreshErrored(rec) ==
  /\ rec.reads >= 1
  /\ rec.kind # "adjust"
  /\ invError = Err(IF rec.batch THEN BatchPrefix(rec.kind) ELSE SinglePrefix(rec.kind),
                    StoreMsg)

\* submission rec read the global on-hand and the per-location balances of
\* code back from the store, and the cache holds what the store holds
RefreshedFor(rec, code) ==
  /\ rec.kind # "adjust"
  /\ rec.reads = 2
  /\ rec.code = code
  /\ invOnHand = Some(GlobalOrZero(code))
  /\ locBalances = onHandByLoc[code]

\* C13: when a submission has ended, every product it moved (a write the
\* store applied) has had its global on-hand and its per-location balances
\* read back into the cache, unless the store failed the refresh itself.
C13_RefreshAfterEverySuccess ==
  \A t \in TaskIds :
    LET rec == task[t] IN
    rec.pc = "done" =>
      \A j \in AppliedWrites(rec) :
        RefreshErrored(rec) \/ RefreshedFor(rec, rec.writes[j].code)

\* C13 witness: a batch has ended with one line applied and one refused
\* and without a read of the balances
C13_Witness ==
  \E t \in TaskIds :
    LET rec == task[t] IN
    /\ rec.pc = "done" /\ rec.batch
    /\ AppliedWrites(rec) # {}
    /\ rec.failed # <<>>
    /\ rec.reads = 0
    /\ \E j \in AppliedWrites(rec) :
         /\ rec.writes[j].code = invProductCode
         /\ locBalances # onHandByLoc[invProductCode]

\* C14: a product code with a path prefix, a trailing slash, a query string,
\* a fragment and/or a trailing image extension around it normalizes to
\* what the code alone normalizes to.
C14_DecorationsStripped ==
  \A c \in CleanCodes, p \in PathPrefixes, e \in ExtSuffixes,
     sl \in SlashSuffixes, q \in QuerySuffixes, f \in FragmentSuffixes :
    (textResult.done /\ rawText = Decorated(c, p, e, sl, q, f)) =>
      textResult.code = normalizeProductCode(c)

\* C14 witness: a code with a path, an extension, a query string and a
\* fragment around it, but no trailing slash, has been normalized to the code
C14_Witness ==
  /\ textResult.done
  /\ rawText = Decorated(CodeA, <<"w", "/">>, <<".", "j", "p", "g">>, <<>>,
                         <<"?", "a", "=", "1">>, <<"#", "a">>)
  /\ textResult.code = CodeA

\* the groups of s between its hyphens
RECURSIVE SplitOnHyphen(_)
SplitOnHyphen(s) ==
  IF \E i \in 1..Len(s) : s[i] = "-"
  THEN LET i == CHOOSE k \in 1..Len(s) : s[k] = "-" /\ \A j \in 1..(k - 1) : s[j] # "-"
       IN <<SubSeq(s, 1, i - 1)>> \o SplitOnHyphen(SubSeq(s, i + 1, Len(s)))
  ELSE <<s>>

\* s is four hyphen-separated groups of 1 to 6 alphanumeric characters
FourGroups(s) ==
  LET gs == SplitOnHyphen(s) IN
  /\ Len(gs) = 4
  /\ \A i \in 1..4 :
       /\ Len(gs[i]) >= 1 /\ Len(gs[i]) <= 6
       /\ \A j \in 1..Len(gs[i]) : gs[i][j] \in Alnum

\* C15: the format check accepts a normalized code exactly when it is four
\* hyphen-separated groups of 1 to 6 alphanumeric characters.
C15_FormatAcceptsExactlyFourGroups ==
  textResult.done => (textResult.valid <=> FourGroups(textResult.code))

\* C15 witness: a code of four groups, one of them 6 characters long, has
\* been accepted
C15_Witness ==
  /\ textResult.done /\ textResult.valid
  /\ rawText \in SegmentedTexts
  /\ \E i \in 1..4 : Len(SplitOnHyphen(textResult.code)[i]) = 6

\* the code that an entered text stands for
EnteredCode(text) == ToUpperCase(Trim(normalizeProductCode(Trim(text))))

\* the text is taken in by this step: the search box is submitted with it,
\* or the camera decoded it and the decode callback went on to the lookup
EntryStep(text) ==
  \/ handleInventorySearch(1, text)
  \/ Decode(1, text) /\ lastDecode'.outcome = "started"

\* C16: on the search box and on the camera alike, a text whose normalized
\* form fails the format check is reported as an invalid format and stops
\* there: no lookup is started for it, it does not become the current
\* product and it is not added to the cart.
C16_InvalidFormatCaughtOnEntry ==
  [][\A text \in EntryTexts :
       (EntryStep(text) /\ ~isValidProductCodeFormat(EnteredCode(text))) =>
         /\ invSearchError' = "Invalid format"
         /\ lookup' = lookup
         /\ invProductCode' = invProductCode
         /\ cartLines' = cartLines]_vars

\* C16 witness: a decoded text that is no code is the current product and a
\* line of the cart, and the catalog has been asked for it
C16_Witness ==
  /\ lastDecode.outcome = "started"
  /\ ~isValidProductCodeFormat(lastDecode.code)
  /\ invProductCode = lastDecode.code
  /\ FindIndex(cartLines, lastDecode.code) > 0
  /\ lookup[1].pc = "exist" /\ lookup[1].code = lastDecode.code
  /\ invSearchError # "Invalid format"

\* every line of the cart holds at least one unit and no two lines hold the
\* same product code
CartWellFormed(lines) ==
  /\ \A i \in 1..Len(lines) : lines[i].qty >= 1
  /\ \A i, j \in 1..Len(lines) :
       lines[i].product_code = lines[j].product_code => i = j

\* the quantity the cart holds of code, 0 when it has no line of code
CartQty(lines, code) ==
  IF FindIndex(lines, code) = 0 THEN 0 ELSE lines[FindIndex(lines, code)].qty

\* this step is the start of handleInventoryModeScan(code) in batch mode,
\* which calls addToCart(code)
AddToCartStep(k, code) ==
  /\ lookup[k].pc # "exist"
  /\ lookup'[k].pc = "exist"
  /\ lookup'[k].batch
  /\ lookup'[k].code = code

\* C17: every cart line holds qty >= 1 and no two lines share a product
\* code, whatever sequence of adds, quantity edits, removals, clears and
\* submits has happened; addToCart of a code not in the cart creates its line
\* with qty 1, addToCart of a code in the cart adds exactly 1 to its line,
\* and in both cases the other lines are left as they were.
C17_CartInvariant ==
  /\ [](CartWellFormed(cartLines))
  /\ [][\A k \in LookupIds, code \in Products :
          AddToCartStep(k, code) =>
            /\ CartQty(cartLines', code) = CartQty(cartLines, code) + 1
            /\ Len(cartLines') = Len(cartLines)
                                   + (IF FindIndex(cartLines, code) = 0 THEN 1 ELSE 0)
            /\ \A other \in Products \ {code} :
                 CartQty(cartLines', other) = CartQty(cartLines, other)]_vars

\* C17 witness: a cart of two lines, one raised to 2 units by a repeated
\* add, the other brought back to 1 unit
C17_Witness ==
  /\ batchMode
  /\ Len(cartLines) = 2
  /\ CartQty(cartLines, CodeA) = 2
  /\ CartQty(cartLines, CodeB) = 1
  /\ lastDecode.outcome = "started"
  /\ task[1].pc = "idle"

\* this step leaves the workflow step or enters one from the menu
WorkflowResetStep == (invStep = "menu") # (invStep' = "menu") \/ mode' # mode

\* this step switches batch mode off
BatchOffStep == batchMode /\ ~batchMode'

\* this step ends a batch submission that reports no failed line
BatchAllSucceededStep ==
  \E t \in TaskIds :
    /\ task[t].pc # "done" /\ task'[t].pc = "done"
    /\ task'[t].batch
    /\ task'[t].failed = <<>>
    /\ invSuccess' # NoSuccess

\* C18: the cart is empty after a workflow reset (the Back buttons, a choice
\* of the workflow menu), after batch mode is switched off and after a batch
\* submission whose lines all succeeded; whenever batch mode is off, the
\* cart is empty.
C18_CartDiscarded ==
  /\ [](~batchMode => cartLines = <<>>)
  /\ [][(WorkflowResetStep \/ BatchOffStep \/ BatchAllSucceededStep)
          => cartLines' = <<>>]_vars

\* C18 witness: batch mode has been switched off in the receive workflow
\* and the lines of the cart are still there
C18_Witness ==
  /\ invStep = "receive"
  /\ ~batchMode
  /\ cartLines # <<>>
  /\ Settled0

\* the calls of the single-line function that submission rec made for code:
\* the first store calls issued for it, and the calls that threw before
\* their store call
EngineCalls(rec, code) ==
  Cardinality({j \in 1..Len(rec.writes) :
                 /\ rec.writes[j].code = code
                 /\ rec.writes[j].reason \in {"receive", "send", "transfer_out"}})
  + Cardinality({j \in 1..Len(rec.failed) :
                   /\ rec.failed[j].product_code = code
                   /\ rec.failed[j].error # StoreMsg})

\* this step issues a movement write to the store or applies one
MovementWriteStep ==
  \/ \E t \in TaskIds : Len(task'[t].writes) > Len(task[t].writes)
  \/ onHandByLoc' # onHandByLoc

\* this step is a batch submit or a continuation of one
BatchSubmitStep ==
  \E t \in TaskIds : task'[t] # task[t] /\ task'[t].batch /\ task'[t].lines # <<>>

\* this step is the start of handleInventoryModeScan(code), from the search
\* box or from the camera
LookupStartStep(k, code) ==
  /\ lookup[k].pc # "exist"
  /\ lookup'[k].pc = "exist"
  /\ lookup'[k].code = code

\* C19: in batch mode a scan or a search adds a line to the cart or a unit
\* to a line and nothing is executed: no movement write is issued to the
\* store in batch mode but by a batch submit, and a batch submit that has
\* run has called the single-line function exactly once for every line of
\* its cart.
C19_BatchDefersUntilSubmit ==
  /\ [][\A k \in LookupIds, code \in Products :
          (batchMode /\ LookupStartStep(k, code)) =>
            /\ CartQty(cartLines', code) = CartQty(cartLines, code) + 1
            /\ UNCHANGED <<storeVars, task>>]_vars
  /\ [][(batchMode /\ MovementWriteStep) => BatchSubmitStep]_vars
  /\ [](\A t \in TaskIds :
          LET rec == task[t] IN
          (BatchEnded(rec) /\ rec.lines # <<>>) =>
            /\ \A i \in 1..Len(rec.lines) :
                 EngineCalls(rec, rec.lines[i].product_code) = 1
            /\ Len(rec.writes) + Len(rec.failed) >= Len(rec.lines))

\* C19 witness: batch mode is on, the camera has decoded a product code and
\* its lookup has started, and the cart has no line of that code
C19_Witness ==
  /\ batchMode
  /\ lastDecode.outcome = "started"
  /\ lookup[1].pc = "exist" /\ lookup[1].via = "scan"
  /\ lookup[1].code = lastDecode.code
  /\ CartQty(cartLines, lastDecode.code) = 0

\* a single receive has ended with its success message
ReceiveSucceeded(rec) ==
  /\ rec.kind = "receive" /\ ~rec.batch /\ rec.pc = "done"
  /\ invSuccess = Ok(SingleDone("receive"))

\* the store held no unit of the product of rec when rec was submitted
OnHandZeroBefore(rec) ==
  \A l \in DOMAIN rec.store0[rec.code] : rec.store0[rec.code][l] = 0

\* C20: a successful single receive of qty units to L1 of a product whose
\* on-hand was 0 has issued exactly one store write, +qty at L1 with reason
\* receive; the refreshed global on-hand is qty, onHandAt(L1) is qty, and
\* one movement record, of type receive, has been appended.
C20_ReceiveFromZero ==
  \A t \in TaskIds :
    LET rec == task[t] IN
    (ReceiveSucceeded(rec) /\ OnHandZeroBefore(rec) /\ rec.to = "L1") =>
      /\ rec.qty >= 1
      /\ rec.writes = <<[code |-> rec.code, loc |-> "L1", delta |-> rec.qty,
                         reason |-> "receive", res |-> "ok"]>>
      /\ invOnHand = Some(rec.qty)
      /\ getOnHandAt(locBalances, "L1") = rec.qty
      /\ StoreOnHandAt(rec.code, "L1") = rec.qty
      /\ GlobalOrZero(rec.code) = rec.qty
      /\ Len(MovementRecords(rec.writes)) = 1
      /\ MovementRecords(rec.writes)[1].type = "receive"
      /\ MovementRecords(rec.writes)[1].quantity = rec.qty

\* C20 witness: 2 units of B, of which the store held none, have been
\* received at L1; the global on-hand shown is 2
C20_Witness ==
  \E t \in TaskIds :
    LET rec == task[t] IN
    /\ ReceiveSucceeded(rec) /\ OnHandZeroBefore(rec)
    /\ rec.code = CodeB /\ rec.to = "L1" /\ rec.qty = 2
    /\ invProductCode = CodeB
    /\ invOnHand = Some(2)
    /\ getOnHandAt(locBalances, "L1") = 2

\* the inputs of single submission rec fail a structural requirement: a
\* location it needs is missing, the two locations of a transfer are the
\* same, or the quantity is below 1
StructurallyInvalid(rec) ==
  \/ rec.kind = "receive" /\ rec.to = NoLoc
  \/ rec.kind = "send" /\ rec.from = NoLoc
  \/ rec.kind = "transfer" /\ (rec.from = NoLoc \/ rec.to = NoLoc \/ rec.from = rec.to)
  \/ rec.qty < 1

\* C21: a receive without a To location, a send without a From location, a
\* transfer with a location missing or with From = To, or any of them with
\* a quantity below 1, ends at once with an error message and has issued no
\* store write.
C21_StructuralValidationFirst ==
  \A t \in TaskIds :
    LET rec == task[t] IN
    (rec.pc # "idle" /\ ~rec.batch /\ rec.kind \in {"receive", "send", "transfer"}
       /\ rec.code # NoCode /\ StructurallyInvalid(rec)) =>
      /\ rec.pc = "done"
      /\ rec.writes = <<>>
      /\ invError # NoMsg
      /\ invError.where = SinglePrefix(rec.kind)
      /\ onHandByLoc = rec.store0

\* C21 witness: a transfer of a product that has stock at L1, from L1 to
\* L1, has ended with the message for equal locations
C21_Witness ==
  \E t \in TaskIds :
    LET rec == task[t] IN
    /\ rec.pc = "done" /\ rec.kind = "transfer" /\ ~rec.batch
    /\ rec.code = CodeA
    /\ rec.from = "L1" /\ rec.to = "L1"
    /\ getOnHandAt(rec.bal, "L1") >= rec.qty
    /\ invError = Err("Move failed", "From and To cannot be the same location.")

\* the workflow is Ready for code: code is the current product, its lookup
\* has ended and has published the on-hand
Ready(code) ==
  /\ invProductCode = code
  /\ invOnHand # Null
  /\ ~invLoading

\* this step submits a movement of submission t: its first store write is
\* issued
SubmitWriteStep(t) == task[t].pc = "idle" /\ task'[t].writes # <<>>

\* C22: a movement write (receive, send, transfer leg or adjust) is issued
\* only from the Ready state of the current product: its lookup has
\* confirmed that it exists and its balances have loaded; not while the
\* lookup is resolving, nor after it ended with an error.
C22_WritesOnlyWhenReady ==
  [][\A t \in TaskIds :
       SubmitWriteStep(t) => Ready(task'[t].writes[1].code)]_vars

\* C22 witness: a receive is at the store for a product whose lookup has
\* ended with "Product check failed"
C22_Witness ==
  \E t \in TaskIds :
    /\ task[t].pc = "rpc" /\ task[t].kind = "receive"
    /\ task[t].code = invProductCode
    /\ scanError = "Product check failed"
    /\ invOnHand = Null
    /\ \A k \in LookupIds : lookup[k].pc = "idle"

\* single submission rec has been applied: the store took it and the
\* handler reported its success after the refresh
Applied(rec) ==
  /\ rec.pc = "done" /\ ~rec.batch
  /\ \A j \in 1..Len(rec.writes) : rec.writes[j].res = "ok"
  /\ \/ rec.kind \in {"receive", "send", "transfer"} /\ invSuccess = Ok(SingleDone(rec.kind))
     \/ rec.kind = "adjust" /\ invSuccess = Ok("Inventory updated.")

\* the input fields of operation kind are at their initial values
InputsReset(kind) ==
  CASE kind = "adjust" -> invDelta = 0
    [] kind = "receive" -> receiveQty = 1 /\ receiveToLoc = NoLoc
    [] kind = "send" -> sendQty = 1 /\ sendFromLoc = NoLoc
    [] kind = "transfer" -> moveQty = 1 /\ fromLoc = NoLoc /\ toLoc = NoLoc

\* C23: when a single adjust, receive, send or transfer has been applied
\* and refreshed, its input fields are reset (delta 0; quantity 1 and the
\* locations cleared) and the resolved product is still the product of the
\* operation, in the same workflow step.
C23_AppliedResetsInputsKeepsProduct ==
  \A t \in TaskIds :
    LET rec == task[t] IN
    Applied(rec) =>
      /\ rec.writes # <<>>
      /\ InputsReset(rec.kind)
      /\ invProductCode = rec.code
      /\ invProductCode # NoCode
      /\ invStep = rec.kind

\* C23 witness: a transfer of 2 units from L1 to L2 has been applied; the
\* quantity is back at 1 and no location is selected
C23_Witness ==
  \E t \in TaskIds :
    LET rec == task[t] IN
    /\ Applied(rec) /\ rec.kind = "transfer"
    /\ rec.qty = 2 /\ rec.from = "L1" /\ rec.to = "L2"
    /\ moveQty = 1 /\ fromLoc = NoLoc /\ toLoc = NoLoc
    /\ invProductCode = CodeA

\* single submission rec of a resolved product has failed: its handler has
\* ended and has not reported the success of the operation (a check of the
\* handler stopped it, the store refused a write, or a refresh failed)
Failed(rec) ==
  /\ rec.pc = "done" /\ ~rec.batch
  /\ rec.kind \in {"receive", "send", "transfer", "adjust"}
  /\ rec.code # NoCode
  /\ ~Applied(rec)

\* the input fields of the operation of rec hold what the operator had
\* entered when rec was submitted
InputsAsEntered(rec) ==
  CASE rec.kind = "adjust" -> invDelta = rec.qty
    [] rec.kind = "receive" -> receiveQty = rec.qty /\ receiveToLoc = rec.to
    [] rec.kind = "send" -> sendQty = rec.qty /\ sendFromLoc = rec.from
    [] rec.kind = "transfer" -> moveQty = rec.qty /\ fromLoc = rec.from /\ toLoc = rec.to

\* the workflow is back at Ready for the product of rec with its message
\* retained and the request as it was entered
BackAtReadyWithMessage(rec) ==
  /\ invError # NoMsg /\ invError.where # "" /\ invError.why # ""
  /\ invSuccess = NoSuccess
  /\ Ready(rec.code)
  /\ invStep = rec.kind
  /\ InputsAsEntered(rec)

NothingOutstanding ==
  /\ \A k \in LookupIds : lookup[k].pc = "idle"
  /\ \A t \in TaskIds : task[t].pc \in {"idle", "done"}
  /\ locFetch = {}

\* the reads of the lookup session of the latest generation are going on
LatestLookupRunning ==
  \E k \in LookupIds :
    /\ lookup[k].pc \in {"exist", "image", "onhand", "adj", "moves"}
    /\ lookup[k].reqId = invReqRef

\* C25: once every outstanding store call has returned, with success or
\* with an error, the batch-submitting flag, the search-busy flag and the
\* scan-busy flag are all false; and the loading flag is false once the
\* most recently started lookup has finished, also when older lookups were
\* superseded and are still running or have ended.
C25_FlagsClearedWhenIdle ==
  /\ NothingOutstanding =>
       /\ ~invSubmitting
       /\ ~invSearchBusy
       /\ ~invScanBusyRef
       /\ ~invLoading
  /\ ~LatestLookupRunning => ~invLoading

\* C25 witness: the second lookup, started by the camera, superseded the
\* first and has ended with a failed on-hand read; the loading flag is off
\* and the scan-busy flag released while the reads of the first lookup are
\* still outstanding
C25_Witness ==
  /\ invReqRef = 2
  /\ lookup[2].pc = "idle"
  /\ lookup[1].pc = "image" /\ lookup[1].reqId = 1 /\ lookup[1].via = "search"
  /\ lastDecode.outcome = "started"
  /\ scanError = "On-hand lookup failed"
  /\ ~invLoading /\ ~invScanBusyRef /\ invSearchBusy

\* C26: non-negativity: in every reachable state the on-hand of every
\* product at every location, as the store holds it and as the component
\* has cached it, is a non-negative integer, whatever the sequence and the
\* interleaving of the submissions.
C26_OnHandNonNegative ==
  /\ \A p \in Products : \A l \in DOMAIN onHandByLoc[p] : onHandByLoc[p][l] \in Nat
  /\ \A l \in DOMAIN locBalances : locBalances[l] \in Nat

\* C26 witness: two sends of one unit from L1 were confirmed one after the
\* other while the panel showed one unit there; both passed the check of
\* sendSingleLine, the store applied both and the row of L1 is at -1
C26_Witness ==
  /\ task[1].kind = "send" /\ task[2].kind = "send"
  /\ task[1].qty = 1 /\ task[2].qty = 1
  /\ task[1].from = "L1" /\ task[2].from = "L1"
  /\ getOnHandAt(task[1].bal, "L1") = 1 /\ getOnHandAt(task[2].bal, "L1") = 1
  /\ task[1].writes # <<>> /\ LastWrite(task[1]).res = "ok"
  /\ task[2].writes # <<>> /\ LastWrite(task[2]).res = "ok"
  /\ StoreOnHandAt(CodeA, "L1") = -1

\* the store steps of a lookup session, in the order of handleInventoryModeScan:
\* existence, image, on-hand, adjustment history, movement history
SessionSteps == {"exist", "image", "onhand", "adj", "moves"}
StepAfter(at) ==
  CASE at = "exist" -> "image"
    [] at = "image" -> "onhand"
    [] at = "onhand" -> "adj"
    [] at = "adj" -> "moves"
    [] at = "moves" -> "moves"

\* lookup k takes a step of its session in this transition
SessionStep(k) == lookup[k].pc \in SessionSteps /\ lookup'[k] # lookup[k]

\* a session starts at the existence check, goes from a step to the step
\* after it or ends, and has one call outstanding at a time
StepsInOrder(k) ==
  /\ (lookup[k].pc \notin SessionSteps /\ lookup'[k].pc \in SessionSteps) =>
       lookup'[k].pc = "exist"
  /\ SessionStep(k) =>
       \/ lookup'[k].pc \notin SessionSteps
       \/ lookup[k].pc # "moves" /\ lookup'[k].pc = StepAfter(lookup[k].pc)

\* a failed existence, image or on-hand read, reported in this transition,
\* ends the session
FailureEndsSession(k) ==
  (/\ SessionStep(k)
   /\ lookup[k].pc \in {"exist", "image", "onhand"}
   /\ scanError' # scanError
   /\ scanError' = ReadFailure(lookup[k].pc, lookup[k].code)) =>
    /\ lookup'[k].pc \notin SessionSteps
    /\ ~invLoading'

\* the continuation of a step of a superseded session changes none of the
\* shared state of the lookup
GuardBeforeMutation(k, steps) ==
  (SessionStep(k) /\ lookup[k].pc \in steps /\ lookup[k].reqId < invReqRef) =>
    UNCHANGED <<scanError, invImageUrl, invOnHand, invAdjustments, invMoves,
                invLoading, invProductCode>>

\* C27: within one lookup session the store steps run strictly in the order
\* existence check, image fetch, on-hand fetch, history fetch, each issued
\* only after the one before has returned; a failed existence, image or
\* on-hand step ends the session without the later steps; and after each
\* step the generation guard is checked before shared state is mutated.
C27_SessionStepsInOrderGuarded ==
  [][\A k \in LookupIds :
       /\ StepsInOrder(k)
       /\ FailureEndsSession(k)
       /\ GuardBeforeMutation(k, SessionSteps)]_vars

\* C27 witness: the session of an earlier search, superseded, has returned
\* from its movement-history step and has put the history of its product on
\* the screen, while the session of the current product is at its image step
C27_Witness ==
  \E k, j \in LookupIds :
    /\ lookup[k].pc = "searchMoves" /\ lookup[k].reqId < invReqRef
    /\ lookup[j].pc = "image" /\ lookup[j].reqId = invReqRef
    /\ lookup[k].code # lookup[j].code
    /\ invProductCode = lookup[j].code
    /\ invMoves = lookup[k].code
    /\ invLoading

\* the cached row of location l, if the cache has one
CachedRowOnHand(l) == IF l \in DOMAIN locBalances THEN locBalances[l] ELSE 0

\* in this step refreshOnHandGlobal of submission t returns its row
GlobalRefreshed(t) == task[t].pc = "refG" /\ task'[t].pc = "refL"

\* in this step refreshLocBalances of submission t returns its rows
LocRefreshed(t) ==
  /\ task[t].pc = "refL" /\ task'[t].pc = "done"
  /\ invSuccess' # NoSuccess

\* in this step the fetch of the balance effect for product p returns
EffectRefreshed(p) == p \in locFetch /\ p \notin locFetch'

\* the cache after the step is the list of the rows the store holds for
\* code: every location of the store's list with its figure, and no other
CacheIsFetched(code) ==
  /\ DOMAIN locBalances' = DOMAIN onHandByLoc[code]
  /\ \A l \in DOMAIN onHandByLoc[code] : locBalances'[l] = onHandByLoc[code][l]

\* C28: getOnHandAt(locationId) gives the on-hand of the cached row of the
\* location, and 0 when the cache has no row for it or the id is empty; a
\* refresh replaces the cached global figure by the fetched one (0 when the
\* store has no row) and the whole per-location list by the fetched rows,
\* keeping no entry of the previous cache.
C28_CacheLookupAndRefresh ==
  /\ [](/\ getOnHandAt(locBalances, NoLoc) = 0
        /\ \A l \in Locs : getOnHandAt(locBalances, l) = CachedRowOnHand(l))
  /\ [][/\ \A t \in TaskIds :
             GlobalRefreshed(t) =>
               invOnHand' = IF onHandGlobal[task[t].code] = Null THEN Some(0)
                            ELSE onHandGlobal[task[t].code]
        /\ \A t \in TaskIds : LocRefreshed(t) => CacheIsFetched(task[t].code)
        /\ \A q \in Products : EffectRefreshed(q) => CacheIsFetched(q)]_vars

\* C28 witness: a receive of B at L2 was confirmed while the cache still
\* held the row of A at L1; after its refresh the cache is the one row of B
\* at L2 and the global figure is the fetched one
C28_Witness ==
  \E t \in TaskIds :
    LET rec == task[t] IN
    /\ rec.pc = "done" /\ rec.kind = "receive" /\ rec.code = CodeB /\ rec.to = "L2"
    /\ "L1" \in DOMAIN rec.bal
    /\ invSuccess = Ok("Inventory received.")
    /\ DOMAIN locBalances = {"L2"} /\ locBalances["L2"] = 1
    /\ getOnHandAt(locBalances, "L1") = 0
    /\ invOnHand = Some(1)

\* the sum of the on-hand figures of the per-location rows
RECURSIVE SumOver(_, _)
SumOver(rows, locs) ==
  IF locs = {} THEN 0
  ELSE LET l == CHOOSE x \in locs : TRUE IN rows[l] + SumOver(rows, locs \ {l})
SumOnHand(rows) == SumOver(rows, DOMAIN rows)

\* write j of rec is the credit of a transfer whose debit is write j - 1
LegsOf(rec, j) ==
  /\ j > 1
  /\ rec.writes[j].reason = "transfer_in"
  /\ rec.writes[j - 1].reason = "transfer_out"

\* every leg that rec has written for product p was applied by the store
\* and no debit of p is without its credit
AllLegsApplied(rec, p) ==
  /\ \A j \in 1..Len(rec.writes) : rec.writes[j].code = p => rec.writes[j].res = "ok"
  /\ \A j \in 1..Len(rec.writes) :
       (rec.writes[j].code = p /\ rec.writes[j].reason = "transfer_out") =>
         (j < Len(rec.writes) /\ rec.writes[j + 1].reason = "transfer_in")

\* C29: a transfer leaves the total on-hand of the product unchanged: the
\* credit of a transfer is written for the product and the quantity of its
\* debit, -qty at From and +qty at To, so the deltas of the two legs sum to
\* 0; and when both legs of every transfer of a product were applied, the
\* sum of its per-location on-hand is what it was before the submission.
C29_TransferKeepsTotal ==
  \A t \in TaskIds :
    LET rec == task[t] IN
    rec.kind = "transfer" =>
      /\ \A j \in 1..Len(rec.writes) :
           rec.writes[j].reason = "transfer_in" =>
             /\ LegsOf(rec, j)
             /\ rec.writes[j].code = rec.writes[j - 1].code
             /\ rec.writes[j].delta + rec.writes[j - 1].delta = 0
             /\ rec.writes[j].delta >= 1
             /\ rec.writes[j - 1].loc = rec.from /\ rec.writes[j].loc = rec.to
             /\ rec.from # rec.to
      /\ \A p \in Products :
           (rec.pc \in {"refG", "refL", "done"} /\ AllLegsApplied(rec, p)) =>
             SumOnHand(onHandByLoc[p]) = SumOnHand(rec.store0[p])

\* C29 witness: a transfer of 2 units of A from L1 to L2 has ended with both
\* legs applied: L1 holds 0, L2 holds 2, and the total is still 2
C29_Witness ==
  \E t \in TaskIds :
    LET rec == task[t] IN
    /\ rec.kind = "transfer" /\ ~rec.batch /\ rec.pc = "done"
    /\ rec.code = CodeA /\ rec.qty = 2 /\ rec.from = "L1" /\ rec.to = "L2"
    /\ Len(rec.writes) = 2
    /\ rec.writes[1].res = "ok" /\ rec.writes[2].res = "ok"
    /\ rec.writes[1].delta = -2 /\ rec.writes[2].delta = 2
    /\ StoreOnHandAt(CodeA, "L1") = 0 /\ StoreOnHandAt(CodeA, "L2") = 2
    /\ SumOnHand(rec.store0[CodeA]) = 2

\* the per-location rows the store holds before anything has been written
InitialRows == [p \in Products |-> IF p = CodeA THEN [l \in {"L1"} |-> 2] ELSE EmptyRows]

\* line i of batch rec was refused by the stock check of its single-line
\* function
RefusedForStock(rec, i) ==
  \E j \in 1..Len(rec.failed) : rec.failed[j] = FailedLine(rec.lines[i], "Insufficient stock")

\* C30: in a batch send or transfer the sufficiency check of each cart line
\* compares the quantity of the line with the cached on-hand of the line's
\* own product at the From location, not with the balances of the product
\* that is displayed.  (Up to the first write the rows fetched for a product
\* are the rows the store started with, whenever they were fetched.)
C30_LineCheckedAgainstOwnProduct ==
  \A t \in TaskIds :
    LET rec == task[t] IN
    (/\ rec.batch /\ rec.kind \in {"send", "transfer"}
     /\ BatchEnded(rec)
     /\ rec.store0 = InitialRows) =>
      \A i \in 1..Len(rec.lines) :
        RefusedForStock(rec, i) <=>
          LineQty(rec.lines[i].qty)
            > getOnHandAt(InitialRows[rec.lines[i].product_code], rec.from)

\* C30 witness: a batch send from L1 of one unit of B, which has nothing
\* there, was submitted while the panel showed the balances of A (2 units at
\* L1): the line of B passed the check and its write was issued
C30_Witness ==
  \E t \in TaskIds :
    LET rec == task[t] IN
    /\ rec.batch /\ rec.kind = "send" /\ BatchEnded(rec)
    /\ rec.from = "L1"
    /\ rec.store0 = InitialRows
    /\ getOnHandAt(rec.bal, "L1") = 2
    /\ \E i \in 1..Len(rec.lines) :
         /\ rec.lines[i].product_code = CodeB
         /\ ~RefusedForStock(rec, i)
         /\ WritesFor(rec, CodeB) # {}

\* a single transfer that got as far as the stock check of transferSingleLine
SingleTransferChecked(rec) ==
  /\ rec.kind = "transfer" /\ ~rec.batch /\ rec.pc # "idle"
  /\ ReachesStockCheck(rec)

\* C31: after a transfer whose debit was applied and whose credit failed,
\* the next transfer of the product is validated against the on-hand the
\* store holds after the debit: its stock check reads a figure equal to the
\* store's at the from-location, so a debit is issued only when the store
\* covers it.
C31_RetryCheckedAgainstPostDebit ==
  \A t \in TaskIds :
    LET rec == task[t] IN
    SingleTransferChecked(rec) =>
      /\ CacheCurrent(rec)
      /\ rec.writes # <<>> =>
           LineQty(rec.qty) <= getOnHandAt(rec.store0[rec.code], rec.from)

\* C31 witness: a transfer was submitted when the store held less at the
\* from-location than the cache (the debit of an earlier transfer was
\* applied, its credit failed), and the debit of the new transfer was issued
\* for more than the store holds
C31_Witness ==
  \E t \in TaskIds :
    LET rec == task[t] IN
    /\ SingleTransferChecked(rec)
    /\ getOnHandAt(rec.bal, rec.from) > getOnHandAt(rec.store0[rec.code], rec.from)
    /\ rec.writes # <<>>
    /\ rec.writes[1].reason = "transfer_out"
    /\ LineQty(rec.qty) > getOnHandAt(rec.store0[rec.code], rec.from)

\* the submissions that have store calls outstanding or still to make
InFlight == {t \in TaskIds : task[t].pc \notin {"idle", "done"}}

\* C32: at most one submission is in flight at a time: while a single or a
\* batch submit has store calls outstanding no second submit starts, and
\* while invSubmitting is true the submit actions are blocked.
C32_OneSubmissionInFlight ==
  /\ [](Cardinality(InFlight) <= 1)
  /\ [][invSubmitting => (InFlight' \subseteq InFlight)]_vars

\* C32 witness: a batch receive is waiting for its store call, invSubmitting
\* is true, and a second submission has been started and waits as well
C32_Witness ==
  /\ invSubmitting
  /\ Cardinality(InFlight) = 2
  /\ \E t \in InFlight : task[t].batch /\ task[t].pc = "rpc"

\* the product codes of a sequence of cart lines
CodesOf(lines) == {lines[i].product_code : i \in 1..Len(lines)}

\* the batch submit t, which had store calls outstanding, comes to its end
\* in this step
BatchCompletes(t) ==
  /\ task[t].batch
  /\ task[t].pc \notin {"idle", "done"}
  /\ task'[t].pc = "done"

\* C33: a change made to the cart while a batch submit is in flight is not
\* lost when the submit completes: a product added during the submit is in
\* the cart afterwards, and a line removed during the submit stays removed.
C33_CartChangesSurviveSubmit ==
  [][\A t \in TaskIds :
       BatchCompletes(t) =>
         /\ (CodesOf(cartLines) \ CodesOf(task[t].lines)) \subseteq CodesOf(cartLines')
         /\ (CodesOf(task[t].lines) \ CodesOf(cartLines)) \cap CodesOf(cartLines') = {}
    ]_vars

\* C33 witness: a batch submit has ended; a search started during the
\* submit has put its product, which the submitted cart did not hold, into
\* the cart (the lookup is still reading), and the cart no longer holds it
C33_Witness ==
  /\ BatchEnded(task[1])
  /\ task[1].writes # <<>>
  /\ lookup[1].batch
  /\ lookup[1].pc \notin {"idle", "searchExist"}
  /\ lookup[1].code \notin CodesOf(task[1].lines)
  /\ lookup[1].code \notin CodesOf(cartLines)

\* C34: only products confirmed to exist in the catalog enter the cart: in
\* batch mode a scanned or searched code is added only after its existence
\* check has succeeded, so every line of the cart is a product of the
\* catalog.
C34_CartHoldsCatalogProducts ==
  CodesOf(cartLines) \subseteq Products

\* C34 witness: a decode event in batch mode carried a code the catalog does
\* not have; its lookup has ended with "No product found" and the code is in
\* the cart
C34_Witness ==
  /\ \A k \in LookupIds : lookup[k].pc = "idle"
  /\ lastDecode.outcome = "started"
  /\ lastDecode.code \notin Products
  /\ isValidProductCodeFormat(lastDecode.code)
  /\ scanError = "No product found"
  /\ lastDecode.code \in CodesOf(cartLines)

\* C35: a workflow reset supersedes the lookup in flight: a continuation of
\* the lookup that runs after the reset changes nothing, so whenever there
\* is no current product the on-hand and the image are null, the histories
\* are empty and the loading flag is false.
C35_NoProductMeansBlankPanel ==
  invProductCode = NoCode =>
    /\ invOnHand = Null
    /\ invImageUrl = NoCode
    /\ invAdjustments = <<>>
    /\ invMoves = NoCode
    /\ ~invLoading

\* C35 witness: the workflow was left while a lookup was reading; the image
\* read of the lookup has returned since, the lookup is at its on-hand read,
\* and the panel without a product holds the image
C35_Witness ==
  /\ invStep = "menu"
  /\ invProductCode = NoCode
  /\ lookup[1].pc = "onhand"
  /\ lookup[1].reqId = invReqRef
  /\ invImageUrl = ImageUrlOf(lookup[1].code)

\* C36: once every request has returned, the cached per-location balances
\* are those of the current product: the result of a balance fetch for a
\* product that is no longer current does not overwrite the cache.  (No
\* write is made here, so the rows fetched for a product are the rows the
\* store holds.)
C36_CacheBelongsToCurrentProduct ==
  (Settled0 /\ mode = "inventory") => locBalances = StoreRows(invProductCode)

\* C36 witness: everything has returned, the current product is B, which has
\* no rows, and the cache holds the rows of A, whose fetch returned last
C36_Witness ==
  /\ Settled0 /\ mode = "inventory"
  /\ invProductCode = CodeB
  /\ locBalances = StoreRows(CodeA)
  /\ locBalances # StoreRows(CodeB)

\* C37: every decode event that the debouncer records as the last accepted
\* {code, timestamp} is processed: an event that is dropped because the
\* handler of an earlier scan is still running leaves the record of the
\* debouncer as it was.
C37_DroppedEventNotRecorded ==
  lastDecode.outcome = "busy" => lastScanRef = lastDecode.last

\* C37 witness: a decode event of a product arrived while the handler of
\* another scan was running; no lookup was started for it, and the debouncer
\* holds its code and its time
C37_Witness ==
  /\ lastDecode.outcome = "busy"
  /\ invScanBusyRef
  /\ lastDecode.code \in Products
  /\ lastDecode.code # lastDecode.last.code
  /\ lastScanRef = [code |-> lastDecode.code, ts |-> lastDecode.at]
  /\ \A k \in LookupIds : lookup[k].code # lastDecode.code

\* the lookup handlers started by a decode event that have not finished
ScanHandlers == {k \in LookupIds : lookup[k].pc # "idle" /\ lookup[k].via = "scan"}

\* C38: at most one scan-triggered lookup handler runs at a time: a decode
\* event that arrives while the handler of an earlier one has not finished
\* starts no lookup, leaves the generation counter and the cart alone, and
\* the busy flag is set exactly while a handler runs, so it is released when
\* the handler finishes, with or without an error.
C38_OneScanHandler ==
  /\ [](Cardinality(ScanHandlers) <= 1)
  /\ [](invScanBusyRef <=> ScanHandlers # {})
  /\ [][(invScanBusyRef /\ lastDecode' # lastDecode) =>
          /\ lookup' = lookup
          /\ invReqRef' = invReqRef
          /\ cartLines' = cartLines]_vars

\* C38 witness: in batch mode a decode event was dropped because a handler
\* was running; that handler has since ended with an error and the busy
\* flag is released
C38_Witness ==
  /\ scanBatchMode
  /\ lastDecode.outcome = "busy"
  /\ ScanHandlers = {}
  /\ scanError # ""
  /\ ~invScanBusyRef
  /\ cartLines # <<>>

\* C39: a suppressed decode event leaves the record of the debouncer as it
\* was (the timestamp is not renewed), so a code is passed by the debouncer
\* again once 900 ms have gone by since its recorded decode; and a decode
\* event increments the cart only when the record does not hold the same
\* code from less than 900 ms before: a tag that stays in view yields at most
\* one increment per window of 900 ms.
C39_SuppressedKeepsRecord ==
  /\ [](lastDecode.outcome = "suppressed" => lastScanRef = lastDecode.last)
  /\ []((/\ lastDecode.outcome # "none"
         /\ lastDecode.code = lastDecode.last.code
         /\ lastDecode.at - lastDecode.last.ts >= 900) =>
          lastDecode.outcome # "suppressed")
  /\ [][(lastDecode' # lastDecode /\ cartLines' # cartLines) =>
          ~(/\ lastScanRef.code = lastDecode'.code
            /\ lastDecode'.at - lastScanRef.ts < 900)]_vars

\* C39 witness: in batch mode a tag was decoded for the second time exactly
\* 900 ms after its recorded decode, with suppressed events in between; the
\* event was passed and the line of the tag holds two units
C39_Witness ==
  /\ scanBatchMode
  /\ lastDecode.outcome = "started"
  /\ lastDecode.code = lastDecode.last.code
  /\ lastDecode.at - lastDecode.last.ts = 900
  /\ FindIndex(cartLines, lastDecode.code) > 0
  /\ cartLines[FindIndex(cartLines, lastDecode.code)].qty = 2

\* a decode event passes the debouncer and the busy test in this step: its
\* handler starts
DecodeStarts == lastDecode' # lastDecode /\ lastDecode'.outcome = "started"

\* the decode callback comes to its end in this step
CallbackEnds == \E k \in LookupIds : lookup[k].pc = "scanEnd" /\ lookup'[k].pc = "idle"

\* C40: the scan handler honours the batch mode that is current when the
\* decode arrives, whenever the camera was started: a decode accepted while
\* batch mode is on adds to the cart and the camera keeps scanning, a decode
\* accepted while it is off leaves the cart alone and the camera is stopped.
C40_DecodeHonoursCurrentBatchMode ==
  /\ [][DecodeStarts =>
          IF batchMode THEN cartLines' = AddedLines(cartLines, lastDecode'.code)
          ELSE cartLines' = cartLines]_vars
  /\ [][CallbackEnds => isScanning' = (isScanning /\ batchMode)]_vars

\* C40 witness: the camera was started in single mode and batch mode was
\* switched on afterwards; a decode was accepted, its callback has ended, the
\* cart is empty and the camera has been stopped
C40_Witness ==
  /\ batchMode /\ ~scanBatchMode
  /\ lastDecode.outcome = "started"
  /\ \A k \in LookupIds : lookup[k].pc = "idle"
  /\ cartLines = <<>>
  /\ ~isScanning

====
